---- MODULE Spec2Model ----
(***************************************************************************)
(* A model of the base44-to-supabase codemods: the specifier scanner, the  *)
(* legacy-SDK classifier, Verify, Cleanup and Convert, acting on a project *)
(* tree held on disk.                                                      *)
(*                                                                         *)
(* Strings are sequences of lexemes ("base44", "Client", ".", "/", ...),   *)
(* so prefix, suffix, substring and case tests are computed, not assumed.  *)
(* A path is a sequence of names (root-relative), a name a sequence of     *)
(* lexemes.  A file's text is a sequence of items: directives, import      *)
(* declarations, require/import() calls, call statements, other code.      *)
(***************************************************************************)
EXTENDS Integers, Sequences, FiniteSets, TLC

VARIABLES disk, log

vars == <<disk, log>>

(***************************************************************************)
(* Bounds of the model.                                                    *)
(***************************************************************************)
MaxOps == 2
MaxImporters == 4
MaxItems == 2
MaxDeps == 2
MaxCalls == 2

(***************************************************************************)
(* Generic sequence helpers.                                               *)
(***************************************************************************)
Range(s) == {s[i] : i \in 1..Len(s)}

RECURSIVE SeqFilter(_, _)
SeqFilter(s, keep) ==
  IF s = <<>> THEN <<>>
  ELSE IF Head(s) \in keep THEN <<Head(s)>> \o SeqFilter(Tail(s), keep)
       ELSE SeqFilter(Tail(s), keep)

\* [...new Set(seq)]: duplicates dropped, first occurrences kept in order.
RECURSIVE Dedupe(_)
Dedupe(s) ==
  IF s = <<>> THEN <<>>
  ELSE LET r == Dedupe(SubSeq(s, 1, Len(s) - 1))
           x == s[Len(s)]
       IN IF x \in Range(r) THEN r ELSE Append(r, x)

RECURSIVE Concat(_)
Concat(ss) == IF ss = <<>> THEN <<>> ELSE Head(ss) \o Concat(Tail(ss))

HasPrefix(s, p) == Len(s) >= Len(p) /\ SubSeq(s, 1, Len(p)) = p
HasSuffix(s, p) == Len(s) >= Len(p) /\ SubSeq(s, Len(s) - Len(p) + 1, Len(s)) = p
Take(s, n) == SubSeq(s, 1, IF Len(s) < n THEN Len(s) ELSE n)

(***************************************************************************)
(* Lexemes in UTF-16 code-unit order (the order of Array.prototype.sort).  *)
(***************************************************************************)
LexOrder ==
  << "-", ".", "/", "123", "@", "API_URL", "Base44", "Client", "DB_KEY",
     "a1", "a2", "a3", "a4", "a5",
     "adapter", "adapter-local", "adapter-supabase", "api", "app", "auth",
     "backend", "base44", "build", "cafe<U+0301>", "caf<U+00E9>", "client", "config", "data", "dist",
     "done", "env",
     "example", "functions", "hello", "index", "js", "json", "jsx",
     "legacy", "lib", "name", "node_modules", "not", "package", "pages", "quarantine",
     "react", "realtime", "removed", "sdk", "server-functions", "src", "storage",
     "supabase", "title", "to-supabase", "todos", "ts",
     "tsx", "unknown", "users", "util" >>

Rank(t) == CHOOSE i \in 1..Len(LexOrder) : LexOrder[i] = t

\* String.prototype.toLowerCase on a lexeme.
LowerLex(t) ==
  CASE t = "Base44" -> "base44"
    [] t = "Client" -> "client"
    [] t = "Auth" -> "auth"
    [] OTHER -> t

ToLowerCase(s) == [i \in 1..Len(s) |-> LowerLex(s[i])]

\* String.prototype.includes for a one-lexeme needle.
Includes(s, t) == \E i \in 1..Len(s) : s[i] = t

RECURSIVE StrLess(_, _)
StrLess(a, b) ==
  IF b = <<>> THEN FALSE
  ELSE IF a = <<>> THEN TRUE
  ELSE IF Head(a) = Head(b) THEN StrLess(Tail(a), Tail(b))
  ELSE Rank(Head(a)) < Rank(Head(b))

\* A set of strings as a sequence in ascending code-unit order.
RECURSIVE SortStrs(_)
SortStrs(S) ==
  IF S = {} THEN <<>>
  ELSE LET m == CHOOSE x \in S : \A y \in S \ {x} : StrLess(x, y)
       IN <<m>> \o SortStrs(S \ {m})

(***************************************************************************)
(* Paths: node:path on root-relative POSIX paths.                          *)
(***************************************************************************)

\* The path as one string, names joined by "/".
RECURSIVE PathStr(_)
PathStr(p) ==
  IF p = <<>> THEN <<>>
  ELSE IF Len(p) = 1 THEN p[1]
  ELSE p[1] \o <<"/">> \o PathStr(Tail(p))

Dirname(p) == SubSeq(p, 1, Len(p) - 1)
Basename(p) == p[Len(p)]

\* path.extname of a name: from its last "." on; empty when there is no "."
\* or the only "." leads the name.
ExtName(n) ==
  LET lastDot == IF \E i \in 1..Len(n) : n[i] = "."
                 THEN CHOOSE i \in 1..Len(n) : n[i] = "." /\ \A j \in (i+1)..Len(n) : n[j] # "."
                 ELSE 0
  IN IF lastDot <= 1 THEN <<>> ELSE SubSeq(n, lastDot, Len(n))

\* A specifier split at "/" into names.
RECURSIVE SplitSlash(_)
SplitSlash(s) ==
  IF ~ Includes(s, "/") THEN <<s>>
  ELSE LET i == CHOOSE k \in 1..Len(s) : s[k] = "/" /\ \A j \in 1..(k-1) : s[j] # "/"
       IN <<SubSeq(s, 1, i - 1)>> \o SplitSlash(SubSeq(s, i + 1, Len(s)))

\* path.resolve(dir, spec) inside the root; <<"<outside>">> leaves the root.
Outside == << <<"<outside>">> >>

RECURSIVE Normalize(_, _)
Normalize(base, parts) ==
  IF parts = <<>> THEN base
  ELSE IF Head(parts) = <<".">> \/ Head(parts) = <<>> THEN Normalize(base, Tail(parts))
  ELSE IF Head(parts) = <<".", ".">>
       THEN IF base = <<>> \/ base = Outside THEN Outside
            ELSE Normalize(Dirname(base), Tail(parts))
  ELSE IF base = Outside THEN Outside
  ELSE Normalize(Append(base, Head(parts)), Tail(parts))

Resolve(dir, spec) == Normalize(dir, SplitSlash(spec))

\* path.relative(from, to) as a sequence of names.
RECURSIVE CommonLen(_, _)
CommonLen(a, b) ==
  IF a = <<>> \/ b = <<>> \/ Head(a) # Head(b) THEN 0
  ELSE 1 + CommonLen(Tail(a), Tail(b))

Relative(from, to) ==
  LET c == CommonLen(from, to)
  IN [i \in 1..(Len(from) - c) |-> <<".", ".">>] \o SubSeq(to, c + 1, Len(to))

\* A set of paths as a sequence ascending by their path strings.
RECURSIVE SortPaths(_)
SortPaths(S) ==
  IF S = {} THEN <<>>
  ELSE LET m == CHOOSE x \in S : \A y \in S \ {x} : StrLess(PathStr(x), PathStr(y))
       IN <<m>> \o SortPaths(S \ {m})

(***************************************************************************)
(* String.prototype.localeCompare: letters compare without case first,     *)
(* punctuation sorts - . @ / before letters; equal letters are then told   *)
(* apart by case, lower case first.  Canonically equivalent strings        *)
(* compare equal: the lexeme written cafe<U+0301> here, e followed by the  *)
(* combining acute accent, is caf<U+00E9> to the comparison.               *)
(***************************************************************************)
NfcLex(t) == IF t = "cafe<U+0301>" THEN "caf<U+00E9>" ELSE t
Nfc(s) == [i \in 1..Len(s) |-> NfcLex(s[i])]

LocaleOrder ==
  << "-", ".", "@", "/", "123", "a1", "a2", "a3", "a4", "a5",
     "adapter", "adapter-local", "adapter-supabase", "api", "app",
     "backend", "base44", "build", "caf<U+00E9>", "client", "config", "dist", "done", "env",
     "example", "functions", "hello", "index", "js", "json", "jsx",
     "legacy", "lib", "name", "node_modules", "not", "package", "pages", "quarantine",
     "react", "removed", "sdk", "src", "supabase", "title", "to-supabase", "todos", "ts",
     "tsx", "users", "util" >>

LocaleRank(t) == CHOOSE i \in 1..Len(LocaleOrder) : LocaleOrder[i] = t

RECURSIVE PrimaryLess(_, _)
PrimaryLess(a, b) ==
  IF b = <<>> THEN FALSE
  ELSE IF a = <<>> THEN TRUE
  ELSE IF Head(a) = Head(b) THEN PrimaryLess(Tail(a), Tail(b))
  ELSE LocaleRank(Head(a)) < LocaleRank(Head(b))

RECURSIVE CaseLess(_, _)
CaseLess(a, b) ==
  IF a = <<>> \/ b = <<>> THEN FALSE
  ELSE IF Head(a) = Head(b) THEN CaseLess(Tail(a), Tail(b))
  ELSE LowerLex(Head(a)) = Head(a)

LocaleLess(a, b) ==
  IF ToLowerCase(Nfc(a)) # ToLowerCase(Nfc(b))
  THEN PrimaryLess(ToLowerCase(Nfc(a)), ToLowerCase(Nfc(b)))
  ELSE CaseLess(Nfc(a), Nfc(b))

\* A set of paths as a sequence ascending under localeCompare.
RECURSIVE SortPathsLocale(_)
SortPathsLocale(S) ==
  IF S = {} THEN <<>>
  ELSE LET m == CHOOSE x \in S : \A y \in S \ {x} : LocaleLess(PathStr(x), PathStr(y))
       IN <<m>> \o SortPathsLocale(S \ {m})

IsUnder(p, dir) == Len(p) > Len(dir) /\ SubSeq(p, 1, Len(dir)) = dir

(***************************************************************************)
(* File contents.  A text is a sequence of items; every item carries the   *)
(* same fields so that items of different kinds compare.                   *)
(*   kind   "directive" | "comment" | "import" | "exportfrom" | "require"  *)
(*          | "dynimport" | "mention" | "stmt" | "other"                   *)
(*   spec   the module specifier (a string), <<>> when there is none       *)
(*   quote  "sq" | "dq" | "bt" (backtick template) around the specifier    *)
(*   from   TRUE when the declaration has a from keyword                   *)
(*   def, ns, named   the default, namespace and named bindings            *)
(*   expr   the call expression of a "stmt"                                *)
(***************************************************************************)
NoExpr == [k |-> "none"]

Blank ==
  [kind |-> "other", spec |-> <<>>, quote |-> "sq", from |-> FALSE,
   def |-> "", ns |-> "", named |-> <<>>, expr |-> NoExpr, text |-> ""]

\* import <bindings> from '<spec>'
ImportFrom(spec, quote, def, ns, named) ==
  [Blank EXCEPT !.kind = "import", !.spec = spec, !.quote = quote, !.from = TRUE,
                !.def = def, !.ns = ns, !.named = named]
\* import '<spec>'  (no from keyword)
ImportBare(spec, quote) == [Blank EXCEPT !.kind = "import", !.spec = spec, !.quote = quote]
\* export * from '<spec>'
ExportFrom(spec, quote) ==
  [Blank EXCEPT !.kind = "exportfrom", !.spec = spec, !.quote = quote, !.from = TRUE]
\* const y = require('<spec>')
Require(spec, quote) == [Blank EXCEPT !.kind = "require", !.spec = spec, !.quote = quote]
\* await import('<spec>')
DynImport(spec, quote) == [Blank EXCEPT !.kind = "dynimport", !.spec = spec, !.quote = quote]
\* a comment whose text reads: from '<spec>'
Mention(spec, quote) == [Blank EXCEPT !.kind = "mention", !.spec = spec, !.quote = quote]
Directive(text) == [Blank EXCEPT !.kind = "directive", !.text = text]
Comment(text) == [Blank EXCEPT !.kind = "comment", !.text = text]
Other(text) == [Blank EXCEPT !.text = text]
Stmt(expr) == [Blank EXCEPT !.kind = "stmt", !.expr = expr]

Named(name, alias) == [name |-> name, alias |-> alias]

\* A file on disk: a text, or the dependency manifest's JSON.
NoPkg == [valid |-> FALSE]
TextFile(items) == [kind |-> "text", items |-> items, pkg |-> NoPkg]

(***************************************************************************)
(* Module specifiers used by the projects of the model.                    *)
(***************************************************************************)
Specifier ==
  [ base44 |-> <<"base44">>,
    sdk |-> <<"@", "base44", "/", "sdk">>,
    client |-> <<"@", "base44", "/", "client">>,
    base44sdk |-> <<"base44", "-", "sdk">>,
    Base44 |-> <<"Base44">>,
    notBase44 |-> <<"not", "-", "base44">>,
    react |-> <<"react">>,
    legacySdk |-> <<"legacy", "-", "sdk">>,
    adapter |-> <<"@", "base44", "-", "to-supabase", "/", "adapter">>,
    adapterSupabase |-> <<"@", "base44", "-", "to-supabase", "/", "adapter-supabase">>,
    adapterLocal |-> <<"@", "base44", "-", "to-supabase", "/", "adapter-local">> ]

(***************************************************************************)
(* sdkHeuristics: the legacy classifier.                                   *)
(***************************************************************************)
DEFAULT_BASE44_IMPORT_SOURCES == <<Specifier.base44, Specifier.sdk, Specifier.client, Specifier.base44sdk>>

IsLikelyBase44ImportSource(moduleSpecifier) ==
  \/ moduleSpecifier \in Range(DEFAULT_BASE44_IMPORT_SOURCES)
  \/ Includes(ToLowerCase(moduleSpecifier), "base44")

(***************************************************************************)
(* importScan: the text-level specifier scanner.  The regular expression   *)
(* has three alternatives, each wanting a single- or double-quoted,        *)
(* non-empty specifier: from '<s>', require('<s>'), import('<s>').         *)
(***************************************************************************)
\* Mutant: the import('<s>') alternative of the expression is missing.
RegexMatches_NoDynamicImport(item) ==
  /\ item.quote \in {"sq", "dq"}
  /\ item.spec # <<>>
  /\ \/ item.kind \in {"import", "exportfrom"} /\ item.from
     \/ item.kind = "mention"
     \/ item.kind = "require"

RegexMatches(item) ==
  /\ item.quote \in {"sq", "dq"}
  /\ item.spec # <<>>
  /\ \/ item.kind \in {"import", "exportfrom"} /\ item.from
     \/ item.kind = "mention"
     \/ item.kind = "require"
     \/ item.kind = "dynimport"

RECURSIVE ScanMatches(_)
ScanMatches(items) ==
  IF items = <<>> THEN <<>>
  ELSE IF RegexMatches(Head(items)) THEN <<Head(items).spec>> \o ScanMatches(Tail(items))
       ELSE ScanMatches(Tail(items))

FindImportedModuleSpecifiers(file) ==
  IF file.kind = "text" THEN Dedupe(ScanMatches(file.items)) ELSE <<>>

(***************************************************************************)
(* fs: the source files of a project.  fast-glob, dot: false, so no name   *)
(* on the way may begin with "."; six directory names are ignored.         *)
(***************************************************************************)
SourceExts == {<<".", "ts">>, <<".", "tsx">>, <<".", "js">>, <<".", "jsx">>}
IgnoredDirs ==
  {<<"node_modules">>, <<"dist">>, <<"build">>, <<".", "next">>, <<".", "turbo">>, <<".", "git">>}

HasSourceExt(name) == \E e \in SourceExts : HasSuffix(name, e)

IsProjectSourcePath(p) ==
  /\ p # <<>>
  /\ HasSourceExt(Basename(p))
  /\ \A i \in 1..Len(p) : p[i] # <<>> /\ p[i][1] # "."
  /\ \A i \in 1..(Len(p) - 1) : p[i] \notin IgnoredDirs

FindProjectSourceFiles(d) == SortPaths({p \in DOMAIN d : IsProjectSourcePath(p)})

(***************************************************************************)
(* verify: verifyProject.  The per-file scans run concurrently and push    *)
(* their entries in completion order; the list is sorted by file at the    *)
(* end.  order is the completion order, a permutation of the file indices. *)
(***************************************************************************)
VerifyAccepts(s, importSources) ==
  IsLikelyBase44ImportSource(s) \/ s \in Range(importSources)

VerifyEntry(d, abs, importSources) ==
  LET all == FindImportedModuleSpecifiers(d[abs])
  IN [file |-> abs,
      specifiers |-> SeqFilter(all, {x \in Range(all) : VerifyAccepts(x, importSources)})]

RECURSIVE VerifyPushes(_, _, _, _)
VerifyPushes(d, files, order, importSources) ==
  IF order = <<>> THEN <<>>
  ELSE LET e == VerifyEntry(d, files[Head(order)], importSources)
           rest == VerifyPushes(d, files, Tail(order), importSources)
       IN IF e.specifiers = <<>> THEN rest ELSE <<e>> \o rest

\* Mutant: the entries stay in the order of the pushes.
SortEntries_AsPushed(es) == es

\* remaining.sort((a, b) => a.file.localeCompare(b.file)): a stable sort,
\* which leaves entries whose files compare equal in the order of the pushes.
RECURSIVE SortEntries(_)
SortEntries(es) ==
  IF es = <<>> THEN <<>>
  ELSE LET i == CHOOSE k \in 1..Len(es) :
                  \A j \in 1..Len(es) :
                    j # k => \/ LocaleLess(PathStr(es[k].file), PathStr(es[j].file))
                             \/ /\ ~ LocaleLess(PathStr(es[j].file), PathStr(es[k].file))
                                /\ k < j
       IN <<es[i]>> \o SortEntries(SubSeq(es, 1, i - 1) \o SubSeq(es, i + 1, Len(es)))

VerifyProject(d, options, order) ==
  LET sourceFiles == FindProjectSourceFiles(d)
      importSources == IF "base44ImportSources" \in DOMAIN options
                       THEN options.base44ImportSources
                       ELSE DEFAULT_BASE44_IMPORT_SOURCES
  IN [filesScanned |-> Len(sourceFiles),
      remainingBase44ModuleReferences |->
        SortEntries(VerifyPushes(d, sourceFiles, order, importSources))]

\* The identity order, and every completion order of n concurrent scans.
Ident(n) == [i \in 1..n |-> i]
Orders(n) == {o \in [1..n -> 1..n] : \A i, j \in 1..n : o[i] = o[j] => i = j}

(***************************************************************************)
(* The state: the project tree on disk, and the log of the operations run  *)
(* on it, each with its options, the tree before it and its result.        *)
(***************************************************************************)
\* The paths of the projects, from the root.
Paths ==
  [ app |-> << <<"app", ".", "ts">> >>,
    srcUtil |-> << <<"src">>, <<"util", ".", "tsx">> >>,
    nodeModules |-> << <<"node_modules">>, <<"sdk">>, <<"index", ".", "js">> >>,
    dotBase44Index |-> << <<".", "base44">>, <<"index", ".", "ts">> >>,
    packageJson |-> << <<"package", ".", "json">> >>,
    client |-> << <<"src">>, <<"api">>, <<"base44", "Client", ".", "ts">> >>,
    srcApp |-> << <<"src">>, <<"app", ".", "ts">> >>,
    dotted |-> << <<"src">>, <<"base44", ".", "client", ".", "ts">> >>,
    legacy |-> << <<"src">>, <<"legacy", ".", "ts">> >>,
    hello |-> << <<"functions">>, <<"hello", ".", "ts">> >>,
    helloHidden |-> << <<"functions">>, <<".", "lib">>, <<"hello", ".", "ts">> >>,
    helloModules |-> << <<"functions">>, <<"node_modules">>, <<"sdk">>, <<"index", ".", "js">> >>,
    edgeHello |-> << <<"supabase">>, <<"functions">>, <<"hello">>, <<"index", ".", "ts">> >>,
    config |-> << <<"base44", ".", "config", ".", "js">> >>,
    page |-> << <<"src">>, <<"pages">>, <<"app", ".", "tsx">> >>,
    backendEntry |-> << <<"src">>, <<"backend">>, <<"index", ".", "ts">> >>,
    hiddenEntry |-> << <<".", "backend">>, <<"index", ".", "ts">> >>,
    envExample |-> << <<".", "env", ".", "example">> >>,
    cafeNfc |-> << <<"caf<U+00E9>", ".", "ts">> >>,
    cafeNfd |-> << <<"cafe<U+0301>", ".", "ts">> >> ]

\* The relative specifiers the files use.
Rel ==
  [ client |-> <<".", "/", "api", "/", "base44", "Client">>,
    clientTs |-> <<".", "/", "api", "/", "base44", "Client", ".", "ts">>,
    clientJs |-> <<".", "/", "api", "/", "base44", "Client", ".", "js">>,
    clientFromFunctions |-> <<".", ".", "/", "src", "/", "api", "/", "base44", "Client">>,
    dotted |-> <<".", "/", "base44", ".", "client">>,
    dottedTs |-> <<".", "/", "base44", ".", "client", ".", "ts">>,
    legacy |-> <<".", "/", "legacy">>,
    hello |-> <<".", ".", "/", "functions", "/", "hello">> ]

\* A run starts on one of the projects, nothing run yet.
Start(projects) == disk \in projects /\ log = <<>>

Absent == [kind |-> "absent", items |-> <<>>, pkg |-> NoPkg]

\* The tree holding the files of f that are not Absent.
DiskOf(f) == [p \in {q \in DOMAIN f : f[q] # Absent} |-> f[p]]

SeqsUpTo(S, n) == UNION {[1..k -> S] : k \in 0..n}


(***************************************************************************)
(* Verify, run on projects whose files hold every short text over the      *)
(* specifier forms, possibly next to two files whose names differ in the   *)
(* encoding of one letter only.                                            *)
(***************************************************************************)
VerifyItems ==
  { ImportFrom(Specifier.react, "sq", "x", "", <<>>),
    ImportFrom(Specifier.notBase44, "dq", "x", "", <<>>),
    ImportBare(Specifier.base44, "sq"),
    ExportFrom(Specifier.Base44, "sq"),
    Require(Specifier.sdk, "sq"),
    Require(Specifier.legacySdk, "dq"),
    DynImport(Specifier.base44, "dq"),
    DynImport(Specifier.base44, "bt") }

\* test/verify.test.ts: a.ts
VerifyFixtureText ==
  << ImportFrom(Specifier.react, "sq", "x", "", <<>>), Require(Specifier.sdk, "sq"), DynImport(Specifier.base44, "sq") >>

\* two files whose names localeCompare takes for equal, next to app.ts or alone
EqualNames ==
  { DiskOf(Paths.app :> a @@ Paths.cafeNfc :> g @@ Paths.cafeNfd :> g) :
      a \in {Absent, TextFile(VerifyFixtureText)},
      g \in {TextFile(<<Require(Specifier.sdk, "dq")>>)} }

VerifyProjects ==
  { DiskOf(Paths.app :> a @@ Paths.srcUtil :> b @@ Paths.nodeModules :> c @@ Paths.dotBase44Index :> e) :
      a \in {TextFile(t) : t \in SeqsUpTo(VerifyItems, MaxItems) \cup {VerifyFixtureText}},
      b \in {Absent, TextFile(<<ExportFrom(Specifier.react, "sq")>>), TextFile(<<Require(Specifier.client, "sq")>>)},
      c \in {Absent, TextFile(<<Require(Specifier.base44, "sq")>>)},
      e \in {Absent, TextFile(<<ImportFrom(Specifier.base44, "sq", "", "", <<Named("auth", "")>>)>>)} }
  \cup EqualNames

VerifyOptions == {<<>>, [base44ImportSources |-> <<Specifier.legacySdk>>]}


Verify ==
  /\ Len(log) < MaxOps
  /\ \E options \in VerifyOptions :
       \E order \in Orders(Len(FindProjectSourceFiles(disk))) :
         log' = Append(log, [op |-> "verify", options |-> options, pre |-> disk,
                             result |-> VerifyProject(disk, options, order)])
  /\ UNCHANGED disk

SpecVerify == Start(VerifyProjects) /\ [][Verify]_vars

(***************************************************************************)
(* C6  Verify detects all three specifier forms.  For every verifyProject  *)
(* run: a scanned file has exactly one entry if its text holds a specifier *)
(* in the form from '<s>', require('<s>') or import('<s>') that the legacy *)
(* classifier accepts, and none otherwise; an entry's specifiers are those *)
(* legacy specifiers, each once, and nothing else; filesScanned counts the *)
(* source files found.                                                     *)
(***************************************************************************)
C6_InForm(item) ==
  /\ item.spec # <<>>
  /\ item.quote \in {"sq", "dq"}
  /\ \/ item.kind \in {"require", "dynimport", "mention"}
     \/ item.kind \in {"import", "exportfrom"} /\ item.from

C6_Accepted(s, options) ==
  \/ IsLikelyBase44ImportSource(s)
  \/ s \in Range(IF "base44ImportSources" \in DOMAIN options
                  THEN options.base44ImportSources
                  ELSE DEFAULT_BASE44_IMPORT_SOURCES)

C6_LegacySpecs(file, options) ==
  {it.spec : it \in {x \in Range(file.items) : C6_InForm(x) /\ C6_Accepted(x.spec, options)}}

C6_RunOk(e) ==
  LET rem == e.result.remainingBase44ModuleReferences
      scanned == {p \in DOMAIN e.pre : IsProjectSourcePath(p)}
  IN /\ e.result.filesScanned = Cardinality(scanned)
     /\ \A p \in scanned :
          Cardinality({i \in 1..Len(rem) : rem[i].file = p})
            = IF C6_LegacySpecs(e.pre[p], e.options) # {} THEN 1 ELSE 0
     /\ \A i \in 1..Len(rem) :
          /\ rem[i].file \in scanned
          /\ Range(rem[i].specifiers) = C6_LegacySpecs(e.pre[rem[i].file], e.options)
          /\ Len(rem[i].specifiers) = Cardinality(Range(rem[i].specifiers))

C6_VerifyDetectsAllForms ==
  \A i \in 1..Len(log) : log[i].op = "verify" => C6_RunOk(log[i])

\* The fixture of the test: a non-legacy import, a require and a dynamic
\* import of legacy specifiers in one file, reported as one entry of two.
C6_Witness ==
  \E i \in 1..Len(log) :
    /\ log[i].op = "verify"
    /\ Paths.app \in DOMAIN log[i].pre
    /\ log[i].pre[Paths.app] = TextFile(VerifyFixtureText)
    /\ \E k \in 1..Len(log[i].result.remainingBase44ModuleReferences) :
         LET r == log[i].result.remainingBase44ModuleReferences[k]
         IN r.file = Paths.app /\ r.specifiers = <<Specifier.sdk, Specifier.base44>>

(***************************************************************************)
(* C20  Verify is order-independent.  Every verifyProject run returns,     *)
(* whatever the order in which the scans of the files complete, the result *)
(* of scanning the files one after the other in the order of the file      *)
(* list: the same filesScanned and the same list of remaining references,  *)
(* in the same order.                                                      *)
(***************************************************************************)
C20_Sequential(e) ==
  VerifyProject(e.pre, e.options, Ident(Len(FindProjectSourceFiles(e.pre))))

C20_OrderIndependent ==
  \A i \in 1..Len(log) : log[i].op = "verify" => log[i].result = C20_Sequential(log[i])

(***************************************************************************)
(* cleanup: the file system as cleanupProject uses it.  Directories are    *)
(* the proper prefixes of the file paths.                                  *)
(***************************************************************************)
Dirs(d) == UNION {{SubSeq(p, 1, n) : n \in 1..(Len(p) - 1)} : p \in DOMAIN d}

\* exists(p): fs.stat succeeds, on a file or on a directory
Exists(d, p) == p \in DOMAIN d \/ p \in Dirs(d)

\* fs.rm(p, { recursive: true, force: true })
RmRecursive(d, dir) == [p \in {q \in DOMAIN d : q # dir /\ ~ IsUnder(q, dir)} |-> d[p]]

\* fs.rm(p, { force: true }) of a file
RmFile(d, p) == [q \in DOMAIN d \ {p} |-> d[q]]

Null == << <<"<null>">> >>

WithExt(base, ext) ==
  IF base = <<>> THEN Outside
  ELSE Append(Dirname(base), Basename(base) \o <<".", ext>>)

IndexFile(ext) == <<"index", ".", ext>>

RECURSIVE FirstExisting(_, _)
FirstExisting(d, ps) ==
  IF ps = <<>> THEN Null
  ELSE IF Exists(d, Head(ps)) THEN Head(ps)
  ELSE FirstExisting(d, Tail(ps))

ResolveRelativeImport(d, fromFileAbs, spec) ==
  LET base == Resolve(Dirname(fromFileAbs), spec)
      tryFiles == << WithExt(base, "ts"), WithExt(base, "tsx"),
                     WithExt(base, "js"), WithExt(base, "jsx"),
                     Append(base, IndexFile("ts")), Append(base, IndexFile("tsx")),
                     Append(base, IndexFile("js")), Append(base, IndexFile("jsx")) >>
  IN IF base = Outside THEN Null
     ELSE IF base # <<>> /\ ExtName(Basename(base)) # <<>>
          THEN IF Exists(d, base) THEN base ELSE Null
     ELSE FirstExisting(d, tryFiles)

\* specifiers.filter((s) => s.startsWith('.'))
RelativeSpecs(file) ==
  LET specs == FindImportedModuleSpecifiers(file)
  IN SeqFilter(specs, {x \in Range(specs) : x[1] = "."})

ImportsPath(d, fromAbs, target) ==
  \E x \in Range(RelativeSpecs(d[fromAbs])) : ResolveRelativeImport(d, fromAbs, x) = target

\* importedBy.get(key(abs)): the importers of abs in insertion order, which is
\* the order of the source files; <<>> when the map has no such key.
ImportedBy(d, abs) ==
  LET files == FindProjectSourceFiles(d)
  IN SeqFilter(files, {f \in Range(files) : ImportsPath(d, f, abs)})

\* isBase44OnlyFile: some specifier of the text is a legacy one
IsBase44OnlyFile(file) ==
  \E x \in Range(FindImportedModuleSpecifiers(file)) : IsLikelyBase44ImportSource(x)

\* listBase44ModuleReferencesInDir: fast-glob in the directory, dot: true,
\* node_modules and dist left out.
InDirScan_IntoNodeModules(p, dirAbs) == IsUnder(p, dirAbs) /\ HasSourceExt(Basename(p))

InDirScan(p, dirAbs) ==
  /\ IsUnder(p, dirAbs)
  /\ HasSourceExt(Basename(p))
  /\ \A i \in (Len(dirAbs) + 1)..(Len(p) - 1) : p[i] \notin {<<"node_modules">>, <<"dist">>}

ListBase44ModuleReferencesInDir(d, dirAbs) ==
  \E p \in DOMAIN d : InDirScan(p, dirAbs) /\ IsBase44OnlyFile(d[p])

(***************************************************************************)
(* The candidate globs of the file-level step (fast-glob, dot: true,       *)
(* onlyFiles: false, case-sensitive).                                      *)
(***************************************************************************)
\* *base44*client*.<ext>
HasBase44ThenClient(name) ==
  \E i, j \in 1..(Len(name) - 2) : i < j /\ name[i] = "base44" /\ name[j] = "client"

MatchesCleanupPattern(p) ==
  \/ Len(p) = 1 /\ HasPrefix(p[1], <<"base44", ".">>)
  \/ Len(p) >= 2 /\ p[1] = <<".", "base44">>
  \/ /\ Len(p) >= 2
     /\ p[1] = <<"src">>
     /\ HasSourceExt(Basename(p))
     /\ \/ HasPrefix(Basename(p), <<"base44">>)
        \/ HasPrefix(Basename(p), <<"Base44">>)
        \/ HasBase44ThenClient(Basename(p))

CleanupCandidates(d) ==
  SortPathsLocale({p \in DOMAIN d \cup Dirs(d) :
                     /\ MatchesCleanupPattern(p)
                     /\ \A i \in 1..(Len(p) - 1) : p[i] \notin IgnoredDirs})

(***************************************************************************)
(* Options objects: a function from the keys that are given to their       *)
(* values; a key left out is undefined and takes its default (??).         *)
(***************************************************************************)
NoOptions == <<>>
Opt(opts, key, default) == IF key \in DOMAIN opts THEN opts[key] ELSE default
\* the options object with key given when choice (a set) holds a value
Given(key, choice) == [k \in {x \in {key} : choice # {}} |-> CHOOSE v \in choice : TRUE]

(***************************************************************************)
(* package.json.  fields maps each top-level key to its value: an object   *)
(* (entries: name and version, in key order), a string or null.  format    *)
(* tells the authored file from one written by JSON.stringify(_, null, 2). *)
(***************************************************************************)
Dep(name, ver) == [name |-> name, ver |-> ver]
ObjectValue(entries) == [t |-> "object", entries |-> entries]
StringValue == [t |-> "string", entries |-> <<>>]
NullValue == [t |-> "null", entries |-> <<>>]

Manifest(fields) == [valid |-> TRUE, fields |-> fields, format |-> "authored"]
InvalidJson == [valid |-> FALSE, fields |-> <<>>, format |-> "authored"]
JsonFile(pkg) == [kind |-> "json", items |-> <<>>, pkg |-> pkg]


DepFields == <<"dependencies", "devDependencies", "peerDependencies", "optionalDependencies">>

DepNameMatches_CaseSensitive(name) == Includes(name, "base44")

\* (name) => name.toLowerCase().includes('base44')
DepNameMatches(name) == Includes(ToLowerCase(name), "base44")

RECURSIVE MatchingNames(_)
MatchingNames(entries) ==
  IF entries = <<>> THEN <<>>
  ELSE IF DepNameMatches(Head(entries).name)
       THEN <<Head(entries).name>> \o MatchingNames(Tail(entries))
       ELSE MatchingNames(Tail(entries))

RECURSIVE KeptEntries(_)
KeptEntries(entries) ==
  IF entries = <<>> THEN <<>>
  ELSE IF DepNameMatches(Head(entries).name) THEN KeptEntries(Tail(entries))
       ELSE <<Head(entries)>> \o KeptEntries(Tail(entries))

RemoveMatchingDeps(pkg) ==
  LET \* if (!obj || typeof obj !== 'object') continue
      isObject(field) == field \in DOMAIN pkg.fields /\ pkg.fields[field].t = "object"
      removed == Concat([i \in 1..Len(DepFields) |->
                           IF isObject(DepFields[i])
                           THEN MatchingNames(pkg.fields[DepFields[i]].entries) ELSE <<>>])
      fields == [k \in DOMAIN pkg.fields |->
                   IF k \in Range(DepFields) /\ isObject(k)
                   THEN ObjectValue(KeptEntries(pkg.fields[k].entries))
                   ELSE pkg.fields[k]]
  IN [removed |-> SortStrs(Range(Dedupe(removed))),
      updated |-> [pkg EXCEPT !.fields = fields]]

(***************************************************************************)
(* cleanupProject.  A run carries the tree and the four result lists.      *)
(***************************************************************************)
SkipEntry(path, kind) ==
  [path |-> path, kind |-> kind, sample |-> <<>>, more |-> FALSE, specs |-> <<>>, count |-> 0]

NewRun(d) ==
  [disk |-> d, deletedPaths |-> <<>>, quarantinedPaths |-> <<>>,
   skippedPaths |-> <<>>, removedDependencies |-> <<>>]

FunctionsDirAbs == << <<"functions">> >>
DefaultQuarantineDir == << <<".", "base44", "-", "to-supabase">>, <<"removed">> >>

FunctionsDirStep_IgnoresMode(st, mode, removeBase44FunctionsDir) ==
  IF /\ removeBase44FunctionsDir
     /\ FunctionsDirAbs \in Dirs(st.disk)
     /\ ListBase44ModuleReferencesInDir(st.disk, FunctionsDirAbs)
  THEN [st EXCEPT !.disk = RmRecursive(@, FunctionsDirAbs),
                  !.deletedPaths = Append(@, FunctionsDirAbs)]
  ELSE st

\* The top-level functions/ directory.
FunctionsDirStep(st, mode, removeBase44FunctionsDir) ==
  IF /\ removeBase44FunctionsDir
     /\ FunctionsDirAbs \in Dirs(st.disk)
     /\ ListBase44ModuleReferencesInDir(st.disk, FunctionsDirAbs)
  THEN [st EXCEPT !.disk = IF mode = "delete" THEN RmRecursive(@, FunctionsDirAbs) ELSE @,
                  !.deletedPaths = Append(@, FunctionsDirAbs)]
  ELSE st

\* One candidate of the file-level step; d0 is the tree the reverse index
\* was built from.
CandidateStep(st, abs, d0, mode) ==
  IF abs \in Dirs(st.disk)
  THEN IF Basename(abs) # <<".", "base44">> THEN st
       ELSE [st EXCEPT !.disk = IF mode = "delete" THEN RmRecursive(@, abs) ELSE @,
                       !.deletedPaths = Append(@, abs)]
  ELSE IF abs \notin DOMAIN st.disk THEN st
  ELSE IF ~ IsBase44OnlyFile(st.disk[abs]) THEN st
  ELSE LET importers == ImportedBy(d0, abs)
       IN IF importers # <<>>
          THEN [st EXCEPT !.skippedPaths =
                  Append(@, [SkipEntry(abs, "still-imported") EXCEPT
                               !.sample = Take(importers, 3),
                               !.more = Len(importers) > 3])]
          ELSE [st EXCEPT !.disk = IF mode = "delete" THEN RmFile(@, abs) ELSE @,
                          !.deletedPaths = Append(@, abs)]

RECURSIVE CandidateLoop(_, _, _, _)
CandidateLoop(st, cands, d0, mode) ==
  IF cands = <<>> THEN st
  ELSE CandidateLoop(CandidateStep(st, Head(cands), d0, mode), Tail(cands), d0, mode)

MoveToQuarantine_CopyOnly(d, fileAbs, quarantineDirRel, renameFails) ==
  LET targetAbs == quarantineDirRel \o fileAbs
  IN IF renameFails
     THEN [p \in DOMAIN d \cup {targetAbs} |-> IF p = targetAbs THEN d[fileAbs] ELSE d[p]]
     ELSE [p \in (DOMAIN d \ {fileAbs}) \cup {targetAbs} |->
             IF p = targetAbs THEN d[fileAbs] ELSE d[p]]

\* moveToQuarantine: fs.rename, or fs.copyFile and fs.rm when rename throws.
MoveToQuarantine(d, fileAbs, quarantineDirRel, renameFails) ==
  LET targetAbs == quarantineDirRel \o fileAbs
      copied == [p \in DOMAIN d \cup {targetAbs} |-> IF p = targetAbs THEN d[fileAbs] ELSE d[p]]
  IN IF renameFails THEN RmFile(copied, fileAbs)
     ELSE [p \in (DOMAIN d \ {fileAbs}) \cup {targetAbs} |->
             IF p = targetAbs THEN d[fileAbs] ELSE d[p]]

AggressiveStep(st, abs, mode, quarantineDirRel, renameFails) ==
  IF abs \notin DOMAIN st.disk THEN st
  ELSE
  LET all == FindImportedModuleSpecifiers(st.disk[abs])
      specs == SeqFilter(all, {x \in Range(all) : IsLikelyBase44ImportSource(x)})
  IN IF specs = <<>> THEN st
     ELSE IF mode = "delete"
     THEN [st EXCEPT !.disk = MoveToQuarantine(@, abs, quarantineDirRel, renameFails),
                     !.quarantinedPaths = Append(@, abs),
                     !.deletedPaths = Append(@, abs)]
     ELSE [st EXCEPT !.skippedPaths =
             Append(@, [SkipEntry(abs, "would-quarantine") EXCEPT !.specs = specs])]

RECURSIVE AggressiveLoop(_, _, _, _, _)
AggressiveLoop(st, files, mode, quarantineDirRel, renameFails) ==
  IF files = <<>> THEN st
  ELSE AggressiveLoop(AggressiveStep(st, Head(files), mode, quarantineDirRel, renameFails),
                      Tail(files), mode, quarantineDirRel, renameFails)

PruneStep_NoGate(st, mode) ==
  LET r == RemoveMatchingDeps(st.disk[Paths.packageJson].pkg)
  IN IF Paths.packageJson \notin DOMAIN st.disk \/ ~ st.disk[Paths.packageJson].pkg.valid
        \/ r.removed = <<>>
     THEN st
     ELSE [st EXCEPT !.removedDependencies = @ \o r.removed,
                     !.disk = IF mode = "delete"
                              THEN [@ EXCEPT ![Paths.packageJson] =
                                      JsonFile([r.updated EXCEPT !.format = "stringified"])]
                              ELSE @]

\* The dependency step; only the length of Verify's list is read.
PruneStep(st, mode) ==
  LET verify == VerifyProject(st.disk, NoOptions, Ident(Len(FindProjectSourceFiles(st.disk))))
      blocked == Len(verify.remainingBase44ModuleReferences)
      readable == Paths.packageJson \in DOMAIN st.disk /\ st.disk[Paths.packageJson].pkg.valid
      r == RemoveMatchingDeps(st.disk[Paths.packageJson].pkg)
  IN IF blocked > 0
     THEN [st EXCEPT !.skippedPaths =
             Append(@, [SkipEntry(Paths.packageJson, "dependencies-kept") EXCEPT !.count = blocked])]
     ELSE IF ~ readable \/ r.removed = <<>> THEN st
     ELSE [st EXCEPT !.removedDependencies = @ \o r.removed,
                     !.disk = IF mode = "delete"
                              THEN [@ EXCEPT ![Paths.packageJson] =
                                      JsonFile([r.updated EXCEPT !.format = "stringified"])]
                              ELSE @]

\* The run up to the end of the file-level step.
FileLevelSteps(d, mode, removeBase44FunctionsDir) ==
  LET s1 == FunctionsDirStep(NewRun(d), mode, removeBase44FunctionsDir)
  IN CandidateLoop(s1, CleanupCandidates(s1.disk), d, mode)

CleanupProject(d, options, renameFails) ==
  LET mode == Opt(options, "mode", "dry-run")
      removeDependencies == Opt(options, "removeDependencies", FALSE)
      removeBase44FunctionsDir == Opt(options, "removeBase44FunctionsDir", TRUE)
      aggressive == Opt(options, "aggressive", FALSE)
      quarantineDirRel == Opt(options, "quarantineDir", DefaultQuarantineDir)
      s2 == FileLevelSteps(d, mode, removeBase44FunctionsDir)
      s3 == IF aggressive
            THEN AggressiveLoop(s2, FindProjectSourceFiles(s2.disk), mode,
                                quarantineDirRel, renameFails)
            ELSE s2
      s4 == [s3 EXCEPT !.quarantinedPaths = SortPaths(Range(@))]
      s5 == IF removeDependencies THEN PruneStep(s4, mode) ELSE s4
  IN [disk |-> s5.disk,
      result |-> [deletedPaths |-> s5.deletedPaths,
                  quarantinedPaths |-> s5.quarantinedPaths,
                  skippedPaths |-> s5.skippedPaths,
                  removedDependencies |-> SortStrs(Range(Dedupe(s5.removedDependencies)))]]

(***************************************************************************)
(* Cleanup, run once on a project.  The projects hold a client wrapper     *)
(* with up to MaxImporters importers, one of the Extras below, and         *)
(* possibly a manifest.                                                    *)
(***************************************************************************)
QuarantineDir == << <<"quarantine">> >>


LegacyText == TextFile(<<ImportFrom(Specifier.sdk, "sq", "", "", <<Named("auth", "")>>), Other("wrapper")>>)
PlainText == TextFile(<<ImportFrom(Specifier.react, "sq", "React", "", <<>>), Other("wrapper")>>)
ImportsText(spec) == TextFile(<<ImportFrom(spec, "sq", "", "", <<Named("client", "")>>)>>)
MixedText == TextFile(<<ImportFrom(Specifier.sdk, "sq", "", "", <<Named("auth", "")>>),
                        ImportFrom(Specifier.react, "sq", "React", "", <<>>)>>)

EmptyTree == [p \in {} |-> Absent]

\* The first k importers: src/a1.ts, ..., each reaching the client in
\* another form.
Importers(k) ==
  LET names == <<"a1", "a2", "a3", "a4", "a5">>
      text(i) == IF i % 3 = 1 THEN ImportsText(Rel.client)
                 ELSE IF i % 3 = 2 THEN TextFile(<<Require(Rel.clientTs, "dq")>>)
                 ELSE TextFile(<<Other("lazy"), DynImport(Rel.client, "sq")>>)
      path(i) == << <<"src">>, <<names[i], ".", "ts">> >>
  IN [p \in {path(i) : i \in 1..k} |-> text(CHOOSE i \in 1..k : path(i) = p)]

ClientParts ==
  {EmptyTree} \cup
  {(Paths.client :> c) @@ Importers(k) : c \in {LegacyText, PlainText}, k \in 0..MaxImporters}

Extras ==
  { EmptyTree,
    (Paths.dotted :> LegacyText) @@ (Paths.srcApp :> ImportsText(Rel.dotted)),
    (Paths.dotted :> LegacyText) @@ (Paths.srcApp :> ImportsText(Rel.dottedTs)),
    (Paths.dotted :> LegacyText),
    (Paths.dotted :> MixedText),
    (Paths.legacy :> LegacyText) @@ (Paths.srcApp :> ImportsText(Rel.legacy)),
    (Paths.legacy :> LegacyText),
    (Paths.hello :> LegacyText) @@ (Paths.edgeHello :> LegacyText),
    (Paths.hello :> PlainText) @@ (Paths.edgeHello :> LegacyText),
    (Paths.hello :> LegacyText) @@ (Paths.edgeHello :> PlainText),
    (Paths.hello :> LegacyText) @@ (Paths.srcApp :> ImportsText(Rel.hello)),
    (Paths.hello :> PlainText) @@ (Paths.helloModules :> LegacyText),
    (Paths.helloHidden :> LegacyText),
    (Paths.hello :> TextFile(<<ImportFrom(Rel.clientFromFunctions, "sq", "client", "", <<>>),
                           Require(Specifier.base44, "sq")>>)),
    (Paths.config :> TextFile(<<Require(Specifier.base44, "dq")>>)),
    (Paths.srcApp :> ImportsText(Rel.clientJs)),
    (Paths.edgeHello :> LegacyText) }

CleanupManifest ==
  Manifest([name |-> StringValue,
            dependencies |-> ObjectValue(<<Dep(Specifier.sdk, "1"), Dep(Specifier.react, "2")>>)])

CleanupProjects ==
  { c @@ e @@ m : c \in ClientParts, e \in Extras,
                  m \in {EmptyTree, Paths.packageJson :> JsonFile(CleanupManifest)} }

CleanupOptions ==
  { Given("mode", m) @@ Given("removeBase44FunctionsDir", f) @@ Given("removeDependencies", r)
      @@ Given("aggressive", aq[1]) @@ Given("quarantineDir", aq[2]) :
      m \in {{}, {"dry-run"}, {"delete"}},
      f \in {{}, {FALSE}, {TRUE}},
      r \in {{}, {TRUE}},
      aq \in {<<{}, {}>>, <<{TRUE}, {}>>, <<{TRUE}, {QuarantineDir}>>} }

\* The outcomes of fs.rename that a run can meet.
RenameOutcomes(options) ==
  IF Opt(options, "aggressive", FALSE) /\ Opt(options, "mode", "dry-run") = "delete"
  THEN BOOLEAN ELSE {FALSE}

CleanupWith(optionSet) ==
  /\ log = <<>>
  /\ \E options \in optionSet :
       \E renameFails \in RenameOutcomes(options) :
         LET r == CleanupProject(disk, options, renameFails)
         IN /\ disk' = r.disk
            /\ log' = Append(log, [op |-> "cleanup", options |-> options,
                                   renameFails |-> renameFails, pre |-> disk,
                                   result |-> r.result])

Cleanup == CleanupWith(CleanupOptions)
SpecCleanup == Start(CleanupProjects) /\ [][Cleanup]_vars

(***************************************************************************)
(* What the cleanup claims speak of.                                       *)
(***************************************************************************)
IsDelete(e) == e.op = "cleanup" /\ Opt(e.options, "mode", "dry-run") = "delete"
IsDryRun(e) == e.op = "cleanup" /\ Opt(e.options, "mode", "dry-run") = "dry-run"
IsAggressive(e) == Opt(e.options, "aggressive", FALSE)

\* spec, written in fromAbs, names target: its exact path, its path without
\* the extension, or its directory when it is an index file.
NamesFile(fromAbs, spec, target) ==
  LET base == Resolve(Dirname(fromAbs), spec)
  IN /\ base # Outside
     /\ \/ base = target
        \/ \E ext \in {"ts", "tsx", "js", "jsx"} :
             target = WithExt(base, ext) \/ target = Append(base, IndexFile(ext))

\* the source files of d, other than target, that import target relatively
RelativeImporters(d, target) ==
  {a \in Range(FindProjectSourceFiles(d)) \ {target} :
     \E x \in Range(RelativeSpecs(d[a])) : NamesFile(a, x, target)}

SkipsOf(e, path, kind) ==
  {i \in 1..Len(e.result.skippedPaths) :
     e.result.skippedPaths[i].path = path /\ e.result.skippedPaths[i].kind = kind}

(***************************************************************************)
(* C3  Still-imported files are skipped.  In delete mode with aggressive   *)
(* off, a file that matches the legacy-only naming convention, references  *)
(* the legacy SDK and is named by a relative specifier of another source   *)
(* file stays on disk, is not in deletedPaths, and has one skippedPaths     *)
(* entry that lists one to three of its importers.                         *)
(***************************************************************************)
C3_Case(e, b) ==
  /\ IsDelete(e) /\ ~ IsAggressive(e)
  /\ MatchesCleanupPattern(b)
  /\ IsBase44OnlyFile(e.pre[b])
  /\ RelativeImporters(e.pre, b) # {}

C3_Skipped(e, b) ==
  /\ b \in DOMAIN disk
  /\ b \notin Range(e.result.deletedPaths)
  /\ Cardinality(SkipsOf(e, b, "still-imported")) = 1
  /\ \A i \in SkipsOf(e, b, "still-imported") :
       /\ Len(e.result.skippedPaths[i].sample) \in 1..3
       /\ Range(e.result.skippedPaths[i].sample) \subseteq RelativeImporters(e.pre, b)

C3_StillImportedSkipped ==
  \A i \in 1..Len(log) : \A b \in DOMAIN log[i].pre :
    C3_Case(log[i], b) => C3_Skipped(log[i], b)

(***************************************************************************)
(* C2  Cleanup safety invariant.  In every run, whatever the mode and the  *)
(* flags, a file outside the top-level functions directory that a source   *)
(* file still on disk imports by a relative specifier is still at its      *)
(* path afterwards: neither deleted nor moved to quarantine.               *)
(***************************************************************************)
C2_StillImported(e, b) ==
  /\ ~ IsUnder(b, FunctionsDirAbs)
  /\ \E a \in RelativeImporters(e.pre, b) : a \in DOMAIN disk

C2_CleanupSafety ==
  \A i \in 1..Len(log) : \A b \in DOMAIN log[i].pre :
    (log[i].op = "cleanup" /\ C2_StillImported(log[i], b)) => b \in DOMAIN disk

(***************************************************************************)
(* C8  Dry-run changes nothing on disk.  After a run in mode 'dry-run',     *)
(* given or by default, the tree is the tree before the run, whatever the  *)
(* other flags; deletions and removed dependencies are only in the result. *)
(***************************************************************************)
C8_DryRunChangesNothing ==
  \A i \in 1..Len(log) : IsDryRun(log[i]) => disk = log[i].pre

\* a run with no mode given that reports a deletion and a removed dependency
C8_Witness ==
  \E i \in 1..Len(log) :
    /\ log[i].op = "cleanup" /\ "mode" \notin DOMAIN log[i].options
    /\ log[i].result.deletedPaths # <<>>
    /\ log[i].result.removedDependencies # <<>>
    /\ disk = log[i].pre

(***************************************************************************)
(* C9  Top-level functions directory rule.  'functions' is in deletedPaths *)
(* exactly when removeBase44FunctionsDir is in effect and a source file    *)
(* inside the directory, outside node_modules and dist, holds a legacy     *)
(* specifier; in delete mode the whole directory is then gone, whoever     *)
(* imports its files; a nested directory named 'functions' is never        *)
(* recorded, and without the aggressive flag its files stay.               *)
(***************************************************************************)
C9_LegacyInside(d) ==
  \E p \in DOMAIN d :
    /\ Len(p) > 1 /\ p[1] = <<"functions">>
    /\ HasSourceExt(Basename(p))
    /\ \A k \in 2..(Len(p) - 1) : p[k] # <<"node_modules">> /\ p[k] # <<"dist">>
    /\ \E k \in 1..Len(d[p].items) :
         C6_InForm(d[p].items[k]) /\ IsLikelyBase44ImportSource(d[p].items[k].spec)

C9_Applies(e) ==
  Opt(e.options, "removeBase44FunctionsDir", TRUE) /\ C9_LegacyInside(e.pre)

C9_InFunctions(d) == {p \in DOMAIN d : p[1] = <<"functions">>}
C9_Nested(d) == {p \in DOMAIN d : Len(p) > 2 /\ p[1] # <<"functions">> /\ p[2] = <<"functions">>}

C9_RunOk(e) ==
  /\ (FunctionsDirAbs \in Range(e.result.deletedPaths)) <=> C9_Applies(e)
  /\ (C9_Applies(e) /\ IsDelete(e)) => C9_InFunctions(disk) = {}
  /\ (~ C9_Applies(e) /\ ~ IsAggressive(e)) =>
        \A p \in C9_InFunctions(e.pre) : p \in DOMAIN disk /\ disk[p] = e.pre[p]
  /\ \A k \in 1..Len(e.result.deletedPaths) :
        LET dp == e.result.deletedPaths[k]
        IN ~ (Len(dp) > 1 /\ Basename(dp) = <<"functions">>)
  /\ ~ IsAggressive(e) =>
        \A p \in C9_Nested(e.pre) : p \in DOMAIN disk /\ disk[p] = e.pre[p]

C9_FunctionsDirRule ==
  \A i \in 1..Len(log) : log[i].op = "cleanup" => C9_RunOk(log[i])

\* functions/hello.ts, imported by src/app.ts, is removed with the directory
\* by a run that was given no removeBase44FunctionsDir
C9_Witness ==
  \E i \in 1..Len(log) :
    /\ IsDelete(log[i])
    /\ "removeBase44FunctionsDir" \notin DOMAIN log[i].options
    /\ Paths.hello \in DOMAIN log[i].pre
    /\ RelativeImporters(log[i].pre, Paths.hello) # {}
    /\ FunctionsDirAbs \in Range(log[i].result.deletedPaths)
    /\ Paths.hello \notin DOMAIN disk

(***************************************************************************)
(* C10  Aggressive quarantine.  With aggressive set, every source file     *)
(* that holds a legacy specifier after the file-level step is, in delete   *)
(* mode, gone from its path, present with its content under                *)
(* <quarantineDir>/<its path> and listed in quarantinedPaths, whether      *)
(* rename succeeded or not; in dry-run it stays, nothing is created under  *)
(* the quarantine directory, quarantinedPaths is empty and skippedPaths    *)
(* has one would-quarantine entry for it.                                  *)
(***************************************************************************)
C10_Remaining(e) ==
  LET d == FileLevelSteps(e.pre, Opt(e.options, "mode", "dry-run"),
                          Opt(e.options, "removeBase44FunctionsDir", TRUE)).disk
  IN {f \in Range(FindProjectSourceFiles(d)) : IsBase44OnlyFile(d[f])}

C10_Target(e, f) == Opt(e.options, "quarantineDir", DefaultQuarantineDir) \o f

C10_RunOk(e) ==
  /\ IsDelete(e) =>
       /\ Range(e.result.quarantinedPaths) = C10_Remaining(e)
       /\ \A f \in C10_Remaining(e) :
            /\ f \notin DOMAIN disk
            /\ C10_Target(e, f) \in DOMAIN disk
            /\ disk[C10_Target(e, f)] = e.pre[f]
  /\ IsDryRun(e) =>
       /\ e.result.quarantinedPaths = <<>>
       /\ \A f \in C10_Remaining(e) :
            /\ f \in DOMAIN disk /\ disk[f] = e.pre[f]
            /\ C10_Target(e, f) \notin DOMAIN disk
            /\ Cardinality(SkipsOf(e, f, "would-quarantine")) = 1

C11_ImportsLegacyOnly(file) ==
  /\ FindImportedModuleSpecifiers(file) # <<>>
  /\ \A x \in Range(FindImportedModuleSpecifiers(file)) : IsLikelyBase44ImportSource(x)

C11_LegacyOnlyDeletion ==
  \A i \in 1..Len(log) : \A b \in DOMAIN log[i].pre :
    (log[i].op = "cleanup" /\ ~ IsAggressive(log[i]) /\ b \in Range(log[i].result.deletedPaths)) =>
      /\ MatchesCleanupPattern(b)
      /\ RelativeImporters(log[i].pre, b) = {}
      /\ C11_ImportsLegacyOnly(log[i].pre[b])

(***************************************************************************)
(* Dependency pruning: Cleanup run once on projects whose manifests vary   *)
(* in their sections.                                                      *)
(***************************************************************************)
DepNames == {Specifier.sdk, Specifier.Base44, Specifier.adapter, Specifier.react}

InjectiveSeqs(S, n) == {q \in SeqsUpTo(S, n) : \A i, j \in 1..Len(q) : q[i] = q[j] => i = j}

DependenciesValues ==
  {NullValue, StringValue} \cup
  {ObjectValue([i \in 1..Len(q) |-> Dep(q[i], "1")]) : q \in InjectiveSeqs(DepNames, MaxDeps)}

PruneManifests ==
  {InvalidJson} \cup
  { Manifest([scripts |-> ObjectValue(<<Dep(Specifier.base44, "run")>>)] @@ a @@ b @@ c @@ e) :
      a \in {<<>>} \cup {[dependencies |-> v] : v \in DependenciesValues},
      b \in {<<>>, [devDependencies |-> ObjectValue(<<Dep(Specifier.base44sdk, "2"), Dep(Specifier.react, "2")>>)],
             [devDependencies |-> ObjectValue(<<Dep(Specifier.sdk, "2")>>)]},
      c \in {<<>>, [peerDependencies |-> ObjectValue(<<Dep(Specifier.Base44, "3")>>)]},
      e \in {<<>>, [optionalDependencies |-> ObjectValue(<<Dep(Specifier.notBase44, "4")>>)]} }

\* the backend entry as Convert writes it for the supabase profile
GeneratedEntry ==
  TextFile(<<ImportFrom(Specifier.adapter, "sq", "", "", <<Named("Backend", "")>>),
             ImportFrom(Specifier.adapterSupabase, "sq", "", "",
                        <<Named("createSupabaseBackendFromEnv", "")>>),
             Other("export const backend")>>)

PruneSources ==
  { EmptyTree,
    (Paths.srcUtil :> PlainText),
    (Paths.legacy :> LegacyText),
    (Paths.legacy :> LegacyText) @@ (Paths.edgeHello :> LegacyText),
    (Paths.client :> LegacyText),
    (Paths.srcUtil :> PlainText) @@ (Paths.hiddenEntry :> GeneratedEntry),
    (Paths.srcUtil :> PlainText) @@ (Paths.backendEntry :> GeneratedEntry) }

PruneProjects ==
  PruneSources \cup
  {src @@ (Paths.packageJson :> JsonFile(m)) : src \in PruneSources, m \in PruneManifests}

PruneOptions ==
  { Given("mode", m) @@ Given("removeDependencies", r) @@ Given("aggressive", a) :
      m \in {{}, {"dry-run"}, {"delete"}}, r \in {{}, {TRUE}, {FALSE}}, a \in {{}, {TRUE}} }

Prune == CleanupWith(PruneOptions)
SpecPrune == Start(PruneProjects) /\ [][Prune]_vars

\* the source files of d that hold a legacy specifier in one of the forms
Blockers(d) ==
  {f \in Range(FindProjectSourceFiles(d)) :
     \E k \in 1..Len(d[f].items) :
       C6_InForm(d[f].items[k]) /\ IsLikelyBase44ImportSource(d[f].items[k].spec)}

ManifestOf(d) == IF Paths.packageJson \in DOMAIN d THEN d[Paths.packageJson] ELSE Absent
WantsPrune(e) == e.op = "cleanup" /\ Opt(e.options, "removeDependencies", FALSE)

(***************************************************************************)
(* C4  Dependency pruning is gated by a clean Verify.  When a run with     *)
(* removeDependencies finds source files that still hold a legacy          *)
(* specifier, the manifest file is as before in every mode,                *)
(* removedDependencies is empty, and skippedPaths has one entry for        *)
(* package.json, which carries the number of those files.                  *)
(***************************************************************************)
C4_RunOk(e) ==
  (WantsPrune(e) /\ Blockers(disk) # {}) =>
    /\ ManifestOf(disk) = ManifestOf(e.pre)
    /\ e.result.removedDependencies = <<>>
    /\ Cardinality({i \in 1..Len(e.result.skippedPaths) :
                      e.result.skippedPaths[i].path = Paths.packageJson}) = 1
    /\ \A i \in 1..Len(e.result.skippedPaths) :
         e.result.skippedPaths[i].path = Paths.packageJson =>
           /\ e.result.skippedPaths[i].kind = "dependencies-kept"
           /\ e.result.skippedPaths[i].count = Cardinality(Blockers(disk))

C4_PruneGatedByVerify == \A i \in 1..Len(log) : C4_RunOk(log[i])

\* a delete run blocked by two files although the manifest lists the SDK
C4_Witness ==
  \E i \in 1..Len(log) :
    /\ WantsPrune(log[i]) /\ IsDelete(log[i])
    /\ Cardinality(Blockers(disk)) = 2
    /\ ManifestOf(log[i].pre).pkg.valid
    /\ "dependencies" \in DOMAIN ManifestOf(log[i].pre).pkg.fields
    /\ \E k \in 1..Len(ManifestOf(log[i].pre).pkg.fields.dependencies.entries) :
         ManifestOf(log[i].pre).pkg.fields.dependencies.entries[k].name = Specifier.sdk

(***************************************************************************)
(* C5  Dependency pruning result.  When a run with removeDependencies      *)
(* finds Verify clean and the manifest parses, removedDependencies is the  *)
(* ascending, duplicate-free list of the names in the four dependency      *)
(* sections that contain 'base44' in any letter case; in delete mode the   *)
(* written manifest lacks exactly those entries of those sections and is   *)
(* otherwise as before; in dry-run, or when no name matches, the file is   *)
(* unchanged.                                                              *)
(***************************************************************************)
C5_Sections(pkg) ==
  {k \in {"dependencies", "devDependencies", "peerDependencies", "optionalDependencies"} :
     k \in DOMAIN pkg.fields /\ pkg.fields[k].t = "object"}

C5_IsLegacyName(name) == \E i \in 1..Len(name) : name[i] \in {"base44", "Base44"}

C5_Names(pkg) ==
  {pkg.fields[k].entries[i].name : <<k, i>> \in
     {x \in C5_Sections(pkg) \X (1..(MaxDeps + 1)) :
        /\ x[2] <= Len(pkg.fields[x[1]].entries)
        /\ C5_IsLegacyName(pkg.fields[x[1]].entries[x[2]].name)}}

C5_Kept(entries) ==
  SeqFilter(entries, {x \in Range(entries) : ~ C5_IsLegacyName(x.name)})

C5_Written(old, new) ==
  /\ new.kind = "json" /\ new.pkg.valid
  /\ DOMAIN new.pkg.fields = DOMAIN old.pkg.fields
  /\ \A k \in DOMAIN old.pkg.fields :
       new.pkg.fields[k] = IF k \in C5_Sections(old.pkg)
                           THEN ObjectValue(C5_Kept(old.pkg.fields[k].entries))
                           ELSE old.pkg.fields[k]

C5_RunOk(e) ==
  (WantsPrune(e) /\ Blockers(disk) = {} /\ ManifestOf(e.pre).pkg.valid) =>
    LET old == ManifestOf(e.pre)
        r == e.result.removedDependencies
    IN /\ Range(r) = C5_Names(old.pkg)
       /\ \A i, j \in 1..Len(r) : i < j => StrLess(r[i], r[j])
       /\ IF IsDelete(e) /\ C5_Names(old.pkg) # {}
          THEN C5_Written(old, ManifestOf(disk))
          ELSE ManifestOf(disk) = old

C5_PruneResult == \A i \in 1..Len(log) : C5_RunOk(log[i])

\* a delete run that removes names from two sections, one of them
\* capitalised, and keeps react
C5_Witness ==
  \E i \in 1..Len(log) :
    /\ WantsPrune(log[i]) /\ IsDelete(log[i])
    /\ log[i].result.removedDependencies = <<Specifier.sdk, Specifier.Base44>>
    /\ {"dependencies", "devDependencies"} \subseteq DOMAIN ManifestOf(log[i].pre).pkg.fields
    /\ ManifestOf(log[i].pre).pkg.fields.devDependencies = ObjectValue(<<Dep(Specifier.sdk, "2")>>)
    /\ ManifestOf(disk).pkg.fields.dependencies = ObjectValue(<<Dep(Specifier.react, "1")>>)
    /\ ManifestOf(disk).pkg.fields.devDependencies = ObjectValue(<<>>)

(***************************************************************************)
(* convert: expressions.  A statement item carries one expression tree:    *)
(*   Id(name)        an identifier                                         *)
(*   Prop(obj, name) obj.name                                              *)
(*   Call(fn, args)  fn(args)                                              *)
(*   Str(text)       a string literal, quotes included                     *)
(*   Lit(text)       any other expression, kept as its text                *)
(*   Obj(key, val)   { key: val }                                          *)
(***************************************************************************)
Id(name) == [k |-> "id", name |-> name]
Prop(obj, name) == [k |-> "prop", obj |-> obj, name |-> name]
Call(fn, args) == [k |-> "call", fn |-> fn, args |-> args]
Str(text) == [k |-> "str", text |-> text]
Lit(text) == [k |-> "lit", text |-> text]
Obj(key, val) == [k |-> "obj", key |-> key, val |-> val]

\* the text `backend.<ns>.<method>(<args>)`, parsed
BackendCall(ns, method, args) == Call(Prop(Prop(Id("backend"), ns), method), args)

\* Mutant: every import declaration is taken for a legacy one.
IsLegacyImport_AnyImport(item) == item.kind = "import"

IsLegacyImport(item) == item.kind = "import" /\ IsLikelyBase44ImportSource(item.spec)

\* findBase44Imports
FindBase44Imports(items) == SeqFilter(items, {x \in Range(items) : IsLegacyImport(x)})

\* removeBase44Imports
RemoveBase44Imports(items) == SeqFilter(items, {x \in Range(items) : ~ IsLegacyImport(x)})

\* extractBindings: the local names, by what they denote
LocalsOf(imports, lowerNames) ==
  {IF n.alias = "" THEN n.name ELSE n.alias :
     n \in {x \in UNION {Range(imp.named) : imp \in Range(imports)} :
              LowerLex(x.name) \in lowerNames}}

ExtractBindings(imports) ==
  [namespaceLike |-> ({imp.def : imp \in Range(imports)} \cup
                      {imp.ns : imp \in Range(imports)}) \ {""},
   auth |-> LocalsOf(imports, {"auth"}),
   collections |-> LocalsOf(imports, {"collections", "collection"}),
   storage |-> LocalsOf(imports, {"storage"})]

IsNamespaceMember(expr, namespaceName, memberName) ==
  expr.obj = Id(namespaceName) /\ expr.name = memberName

\* isAuthReceiver and isStorageReceiver, for member "auth" and "storage"
IsReceiver(expr, locals, namespaceLike, member) ==
  \/ expr.k = "id" /\ expr.name \in locals
  \/ expr.k = "prop" /\ \E ns \in namespaceLike : IsNamespaceMember(expr, ns, member)

IsCollectionsCallee(call, bindings) ==
  \/ call.fn.k = "id" /\ call.fn.name \in bindings.collections
  \/ /\ call.fn.k = "prop"
     /\ \E ns \in bindings.namespaceLike :
          IsNamespaceMember(call.fn, ns, "collections") \/ IsNamespaceMember(call.fn, ns, "collection")

Hit(kind, expr) == [hit |-> kind, expr |-> expr]

\* rewriteAuthCalls, on one call
RewriteAuthCall(call, bindings) ==
  IF /\ call.fn.k = "prop"
     /\ IsReceiver(call.fn.obj, bindings.auth, bindings.namespaceLike, "auth")
     /\ call.fn.name \in {"signIn", "signOut", "getUser"}
  THEN Hit("rewritten", BackendCall("auth", call.fn.name, call.args))
  ELSE Hit("none", call)

\* rewriteStorageCalls, on one call
RewriteStorageCall(call, bindings) ==
  IF /\ call.fn.k = "prop"
     /\ IsReceiver(call.fn.obj, bindings.storage, bindings.namespaceLike, "storage")
  THEN IF call.fn.name \in {"upload", "download"}
       THEN Hit("rewritten", BackendCall("storage", call.fn.name, call.args))
       ELSE Hit("unknown", call)
  ELSE Hit("none", call)

\* rewriteCollectionsCrud, on one call
RewriteCollectionsCall(call, bindings) ==
  IF ~ (/\ call.fn.k = "prop"
        /\ call.fn.obj.k = "call"
        /\ IsCollectionsCallee(call.fn.obj, bindings))
  THEN Hit("none", call)
  ELSE
  LET method == call.fn.name
      innerArgs == call.fn.obj.args
      args == call.args
      entity == innerArgs[1]
      Data(m, as) == Hit("rewritten", BackendCall("data", m, as))
  IN IF innerArgs = <<>> \/ innerArgs[1].k # "str" THEN Hit("unknownEntities", call)
     ELSE IF method = "create"
          THEN IF Len(args) < 1 THEN Hit("unknown", call)
               ELSE Data("create", <<entity, args[1]>>)
     ELSE IF method = "update"
          THEN IF Len(args) = 2 THEN Data("update", <<entity, args[1], args[2]>>)
               ELSE Hit("unknown", call)
     ELSE IF method \in {"delete", "remove"}
          THEN IF Len(args) >= 1 THEN Data("delete", <<entity, args[1]>>)
               ELSE Hit("unknown", call)
     ELSE IF method \in {"get", "read"}
          THEN IF Len(args) >= 1 THEN Data("read", <<entity, Obj("id", args[1])>>)
               ELSE Data("read", <<entity>>)
     ELSE IF method \in {"list", "all"}
          THEN IF Len(args) = 0 THEN Data("read", <<entity>>)
               ELSE Data("read", <<entity, Obj("filter", args[1])>>)
     ELSE IF method = "find"
          THEN IF Len(args) >= 1 THEN Data("read", <<entity, Obj("filter", args[1])>>)
               ELSE Hit("unknown", call)
     ELSE Hit("unknown", call)

RewriteCall(call, bindings, pass) ==
  CASE pass = "auth" -> RewriteAuthCall(call, bindings)
    [] pass = "collections" -> RewriteCollectionsCall(call, bindings)
    [] pass = "storage" -> RewriteStorageCall(call, bindings)

(***************************************************************************)
(* One pass over the calls of an expression, last-starting first           *)
(* (getCallSnapshotReverse): the calls in the arguments, last argument     *)
(* first, then the call itself, then the calls in its callee, which start  *)
(* where it starts and are forgotten when it was replaced.  Yields the     *)
(* expression and the outcomes met, in that order.                         *)
(***************************************************************************)
\* Mutant: the calls are visited first-starting first, so that a replaced
\* call takes the calls in its arguments with it, unvisited.
RECURSIVE Walk_OuterFirst(_, _, _)
Walk_OuterFirst(expr, bindings, pass) ==
  IF expr.k = "call"
  THEN LET n == Len(expr.args)
           Rest(r, w, f) ==
             IF r.hit = "rewritten" THEN [expr |-> r.expr, hits |-> <<r.hit>>]
             ELSE [expr |-> [expr EXCEPT !.fn = f.expr, !.args = [i \in 1..n |-> w[i].expr]],
                   hits |-> (IF r.hit = "none" THEN <<>> ELSE <<r.hit>>)
                            \o f.hits \o Concat([i \in 1..n |-> w[i].hits])]
       IN Rest(RewriteCall(expr, bindings, pass),
               [i \in 1..n |-> Walk_OuterFirst(expr.args[i], bindings, pass)],
               Walk_OuterFirst(expr.fn, bindings, pass))
  ELSE IF expr.k = "prop"
  THEN LET o == Walk_OuterFirst(expr.obj, bindings, pass)
       IN [expr |-> [expr EXCEPT !.obj = o.expr], hits |-> o.hits]
  ELSE IF expr.k = "obj"
  THEN LET v == Walk_OuterFirst(expr.val, bindings, pass)
       IN [expr |-> [expr EXCEPT !.val = v.expr], hits |-> v.hits]
  ELSE [expr |-> expr, hits |-> <<>>]

RECURSIVE Walk(_, _, _)
Walk(expr, bindings, pass) ==
  IF expr.k = "call"
  THEN LET n == Len(expr.args)
           Own(r) == IF r.hit = "none" THEN <<>> ELSE <<r.hit>>
           Callee(as, r, f) ==
             IF r.hit = "rewritten"
             THEN [expr |-> r.expr, hits |-> as \o Own(r)]
             ELSE [expr |-> [r.expr EXCEPT !.fn = f.expr], hits |-> as \o Own(r) \o f.hits]
           Self(w) ==
             Callee(Concat([i \in 1..n |-> w[n + 1 - i].hits]),
                    RewriteCall([expr EXCEPT !.args = [i \in 1..n |-> w[i].expr]], bindings, pass),
                    Walk(expr.fn, bindings, pass))
       IN Self([i \in 1..n |-> Walk(expr.args[i], bindings, pass)])
  ELSE IF expr.k = "prop"
  THEN LET o == Walk(expr.obj, bindings, pass)
       IN [expr |-> [expr EXCEPT !.obj = o.expr], hits |-> o.hits]
  ELSE IF expr.k = "obj"
  THEN LET v == Walk(expr.val, bindings, pass)
       IN [expr |-> [expr EXCEPT !.val = v.expr], hits |-> v.hits]
  ELSE [expr |-> expr, hits |-> <<>>]

\* Mutant: the calls left for an unsupported method or signature are not
\* counted.
RewritePass_UnknownUncounted(items, bindings, pass) ==
  LET Count(hits, kind) == Len(SeqFilter(hits, {kind}))
      Counted(hits, w) ==
        [items |-> [i \in 1..Len(items) |-> [items[i] EXCEPT !.expr = w[i].expr]],
         rewritten |-> Count(hits, "rewritten"), unknown |-> 0,
         unknownEntities |-> Count(hits, "unknownEntities")]
      Walked(w) == Counted(Concat([i \in 1..Len(items) |-> w[i].hits]), w)
  IN Walked([i \in 1..Len(items) |->
               IF items[i].kind = "stmt" THEN Walk(items[i].expr, bindings, pass)
               ELSE [expr |-> items[i].expr, hits |-> <<>>]])

\* one rewrite function applied to the file
RewritePass(items, bindings, pass) ==
  LET Count(hits, kind) == Len(SeqFilter(hits, {kind}))
      Counted(hits, w) ==
        [items |-> [i \in 1..Len(items) |-> [items[i] EXCEPT !.expr = w[i].expr]],
         rewritten |-> Count(hits, "rewritten"), unknown |-> Count(hits, "unknown"),
         unknownEntities |-> Count(hits, "unknownEntities")]
      Walked(w) == Counted(Concat([i \in 1..Len(items) |-> w[i].hits]), w)
  IN Walked([i \in 1..Len(items) |->
               IF items[i].kind = "stmt" THEN Walk(items[i].expr, bindings, pass)
               ELSE [expr |-> items[i].expr, hits |-> <<>>]])

(***************************************************************************)
(* convert: one file, then the project.                                    *)
(***************************************************************************)
StripSourceExt(p) ==
  IF HasSourceExt(Basename(p))
  THEN Append(Dirname(p), SubSeq(Basename(p), 1, Len(Basename(p)) - 2))
  ELSE p

ComputeBackendImport(fromFileAbs, backendEntryAbs) ==
  LET posix == PathStr(Relative(Dirname(fromFileAbs), StripSourceExt(backendEntryAbs)))
      withExt == IF HasSuffix(posix, <<".", "js">>) THEN posix ELSE posix \o <<".", "js">>
  IN IF withExt[1] = "." THEN withExt ELSE <<".", "/">> \o withExt

IsComment(item) == item.kind \in {"comment", "mention"}

LeadingDirectives_None(statements) == 0

\* how many directive prologues lead the statements
RECURSIVE LeadingDirectives(_)
LeadingDirectives(statements) ==
  IF statements = <<>> \/ Head(statements).kind # "directive" THEN 0
  ELSE 1 + LeadingDirectives(Tail(statements))

InsertStatement(items, index, item) ==
  SubSeq(items, 1, index) \o <<item>> \o SubSeq(items, index + 1, Len(items))

EnsureBackendImport(items, moduleSpecifier) ==
  LET decl == ImportFrom(moduleSpecifier, "dq", "", "", <<Named("backend", "")>>)
      importDecls == {i \in 1..Len(items) : items[i].kind = "import"}
      lastImport == CHOOSE i \in importDecls : \A j \in importDecls : j <= i
      statements == SeqFilter(items, {x \in Range(items) : ~ IsComment(x)})
  IN IF \E i \in importDecls : items[i].spec = moduleSpecifier THEN items
     ELSE IF importDecls # {} THEN InsertStatement(items, lastImport, decl)
     ELSE InsertStatement(items, LeadingDirectives(statements), decl)

TodoComment == Comment("TODO(base44-to-supabase)")
Todo(file, kind, count) == [file |-> file, kind |-> kind, count |-> count, specs |-> <<>>]

\* The body of the loop over the source files.
ConvertFile(file, abs, backendEntryAbs) ==
  LET base44Imports == FindBase44Imports(file.items)
      Mark(items, anyUnknown, anyRewritten) ==
        IF (anyUnknown > 0 \/ anyRewritten = 0) /\ \E x \in Range(items) : ~ IsComment(x)
        THEN <<TodoComment>> \o items ELSE items
      Report(a, c, g) ==
        [file |-> [file EXCEPT !.items = Mark(g.items, c.unknown + c.unknownEntities + g.unknown,
                                              a.rewritten + c.rewritten + g.rewritten)],
         modified |-> TRUE,
         todos |->
           (IF c.unknownEntities > 0 THEN <<Todo(abs, "entity-not-literal", c.unknownEntities)>> ELSE <<>>)
           \o (IF c.unknown > 0 THEN <<Todo(abs, "crud-signature", c.unknown)>> ELSE <<>>)
           \o (IF g.unknown > 0 THEN <<Todo(abs, "storage-call", g.unknown)>> ELSE <<>>)]
      Storage(bindings, a, c) == Report(a, c, RewritePass(c.items, bindings, "storage"))
      Collections(bindings, a) == Storage(bindings, a, RewritePass(a.items, bindings, "collections"))
      Auth(bindings, items) == Collections(bindings, RewritePass(items, bindings, "auth"))
  IN IF file.kind # "text" \/ base44Imports = <<>>
     THEN [file |-> file, modified |-> FALSE, todos |-> <<>>]
     ELSE Auth(ExtractBindings(base44Imports),
               EnsureBackendImport(RemoveBase44Imports(file.items),
                                   ComputeBackendImport(abs, backendEntryAbs)))

\* The generated files.
BackendEntryFile(backendMode) ==
  LET create == IF backendMode = "local" THEN "createLocalSupabaseBackendFromEnv"
                ELSE "createSupabaseBackendFromEnv"
  IN TextFile(<< ImportFrom(Specifier.adapter, "sq", "", "", <<Named("Backend", "")>>),
                 ImportFrom(IF backendMode = "local" THEN Specifier.adapterLocal ELSE Specifier.adapterSupabase,
                            "sq", "", "", <<Named(create, "")>>),
                 Comment("Generated by base44-to-supabase."),
                 Comment("Customize this file for your app"),
                 Stmt(Call(Id(create), <<>>)) >>)

EnvExampleFile == [kind |-> "env", items |-> <<>>, pkg |-> NoPkg]

ConvertProject(d, options, order) ==
  LET backend == Opt(options, "backend", [mode |-> "supabase"])
      backendEntryAbs == Opt(backend, "entryPath", Paths.backendEntry)
      envExampleAbs == Opt(options, "envExamplePath", Paths.envExample)
      Report(sourceFiles, converted, saved, pushes) ==
        [disk |-> [p \in DOMAIN saved \cup {backendEntryAbs, envExampleAbs} |->
                     IF p = envExampleAbs THEN EnvExampleFile
                     ELSE IF p = backendEntryAbs THEN BackendEntryFile(backend.mode)
                     ELSE saved[p]],
         saved |-> saved,
         result |->
           [modifiedFiles |-> SortPaths({sourceFiles[i] : i \in {j \in 1..Len(sourceFiles) :
                                                                  converted[j].modified}}),
            todos |-> Concat([i \in 1..Len(sourceFiles) |-> converted[i].todos])
                      \o [i \in 1..Len(pushes) |->
                            [Todo(pushes[i].file, "remaining-reference", Len(pushes[i].specifiers))
                               EXCEPT !.specs = pushes[i].specifiers]],
            remainingBase44ModuleReferences |-> SortEntries(pushes),
            backendEntryPath |-> backendEntryAbs,
            envExamplePath |-> envExampleAbs]]
      PostCheck(sourceFiles, converted, saved) ==
        Report(sourceFiles, converted, saved, VerifyPushes(saved, sourceFiles, order, <<>>))
      Save(sourceFiles, converted) ==
        PostCheck(sourceFiles, converted,
                  [p \in DOMAIN d |->
                     IF p \in Range(sourceFiles)
                     THEN converted[CHOOSE i \in 1..Len(sourceFiles) : sourceFiles[i] = p].file
                     ELSE d[p]])
      Files(sourceFiles) ==
        Save(sourceFiles, [i \in 1..Len(sourceFiles) |->
                             ConvertFile(d[sourceFiles[i]], sourceFiles[i], backendEntryAbs)])
  IN Files(FindProjectSourceFiles(d))

(***************************************************************************)
(* Convert, run up to MaxOps times on a project; the log keeps, besides    *)
(* the tree before and after, the tree as project.save() left it.  The     *)
(* projects hold one file with the calls of the conversion test, written   *)
(* in one of three import styles at the root or under src/pages, possibly  *)
(* led by a directive, with another import, with one further statement,    *)
(* or with an import from the backend entry already in it, or with the     *)
(* legacy import and no call at all, and possibly a second file, which has *)
(* a dynamic import or, in the last family, a legacy import as well.       *)
(***************************************************************************)
ImportStyles == {"named", "alias", "default"}

LegacyImportOf(style) ==
  CASE style = "named" ->
         ImportFrom(Specifier.base44, "sq", "", "",
                    <<Named("auth", ""), Named("collections", ""), Named("storage", "")>>)
    [] style = "alias" ->
         ImportFrom(Specifier.sdk, "dq", "", "",
                    <<Named("Auth", "a"), Named("collection", "db"), Named("storage", "files")>>)
    [] style = "default" -> ImportFrom(Specifier.base44sdk, "sq", "base44", "", <<>>)

\* the expressions that denote auth, collections and storage in a style
LegacyNames(style) ==
  CASE style = "named" -> [auth |-> Id("auth"), collections |-> Id("collections"),
                           storage |-> Id("storage")]
    [] style = "alias" -> [auth |-> Id("a"), collections |-> Id("db"), storage |-> Id("files")]
    [] style = "default" -> [auth |-> Prop(Id("base44"), "auth"),
                             collections |-> Prop(Id("base44"), "collections"),
                             storage |-> Prop(Id("base44"), "storage")]

Todos == Str("'todos'")
Entity(n) == Call(n.collections, <<Todos>>)

CanonicalCalls(style) ==
  LET n == LegacyNames(style)
  IN << Stmt(Call(Prop(n.auth, "signIn"), <<Lit("{ email, password }")>>)),
        Stmt(Call(Prop(Entity(n), "create"), <<Lit("{ title: 'hello' }")>>)),
        Stmt(Call(Prop(Entity(n), "get"), <<Str("'123'")>>)),
        Stmt(Call(Prop(Entity(n), "list"), <<Lit("{ done: false }")>>)),
        Stmt(Call(Prop(Entity(n), "update"), <<Str("'123'"), Lit("{ done: true }")>>)),
        Stmt(Call(Prop(Entity(n), "delete"), <<Str("'123'")>>)),
        Stmt(Call(Prop(n.storage, "upload"), <<Str("'files'"), Str("'a.txt'"), Lit("bytes")>>)),
        Stmt(Call(Prop(n.storage, "download"), <<Str("'files'"), Str("'a.txt'")>>)) >>

\* one further statement after the calls
ExtraItems(style) ==
  LET n == LegacyNames(style)
  IN { <<>>,
       <<Stmt(Call(Prop(n.storage, "remove"), <<Str("'a.txt'")>>))>>,
       <<Stmt(Call(Prop(Call(n.collections, <<Id("name")>>), "create"), <<Lit("{}")>>))>>,
       <<Stmt(Call(Prop(Id("log"), "info"),
                   <<Call(Prop(Entity(n), "get"), <<Call(Prop(n.auth, "getUser"), <<>>)>>)>>))>>,
       <<Stmt(Call(Prop(Id("session"), "signIn"), <<Lit("token")>>))>>,
       <<Stmt(Call(Prop(Entity(n), "create"), <<Lit("{ title: 'again' }"), Lit("options")>>))>>,
       <<Stmt(Call(Prop(Entity(n), "update"), <<Str("'123'")>>))>>,
       <<Stmt(Call(Prop(Entity(n), "upsert"), <<Lit("{ title: 'hello' }")>>))>>,
       <<Stmt(Call(Prop(n.auth, "resetPassword"), <<Lit("email")>>))>>,
       <<Stmt(Call(Prop(n.auth, "signIn"),
                   <<Call(Prop(Entity(n), "get"), <<Call(Prop(n.auth, "getUser"), <<>>)>>)>>))>>,
       <<Stmt(Call(Prop(Entity(n), "create"),
                   <<Call(Prop(Entity(n), "get"), <<Str("'123'")>>)>>))>>,
       <<Require(Specifier.base44, "sq")>> }

UseClient == Directive("use client")
ReactImport == ImportFrom(Specifier.react, "sq", "React", "", <<>>)

\* files that import from the backend entry already, as app.ts names it:
\* another of its exports, or backend itself
PartlyConverted ==
  { TextFile(<<ImportFrom(ComputeBackendImport(Paths.app, Paths.backendEntry), "sq", "", "",
                          <<Named(b, "")>>),
               LegacyImportOf("named")>> \o CanonicalCalls("named")) :
      b \in {"helper", "backend"} }

\* files that import the legacy SDK and call nothing
ImportOnly == {TextFile(<<LegacyImportOf(style)>>) : style \in ImportStyles}

ConvertTexts ==
  UNION { { TextFile(d \o r \o <<LegacyImportOf(style)>> \o CanonicalCalls(style) \o x) :
              d \in {<<>>, <<UseClient>>}, r \in {<<>>, <<ReactImport>>},
              x \in ExtraItems(style) } : style \in ImportStyles }
  \cup PartlyConverted \cup ImportOnly

\* two files that import the legacy SDK
TwoLegacy == {(Paths.app :> t) @@ (Paths.page :> u) : t \in ImportOnly, u \in ImportOnly}

ConvertProjects ==
  { (at :> t) @@ u : at \in {Paths.app, Paths.page}, t \in ConvertTexts,
                     u \in {EmptyTree, (Paths.srcUtil :> TextFile(<<DynImport(Specifier.client, "sq")>>))} }
    \cup TwoLegacy

ConvertOptionSet ==
  { NoOptions,
    [backend |-> [mode |-> "local"]],
    [backend |-> [mode |-> "supabase", entryPath |-> Paths.backendEntry],
     envExamplePath |-> Paths.envExample],
    [backend |-> [mode |-> "supabase", entryPath |-> Paths.hiddenEntry]] }


Convert ==
  /\ Len(log) < MaxOps
  /\ \E options \in ConvertOptionSet :
       \E order \in Orders(Len(FindProjectSourceFiles(disk))) :
         \E r \in {ConvertProject(disk, options, order)} :
            /\ disk' = r.disk
            /\ log' = Append(log, [op |-> "convert", options |-> options, pre |-> disk,
                                   saved |-> r.saved, post |-> r.disk, result |-> r.result])

SpecConvert == Start(ConvertProjects) /\ [][Convert]_vars

\* the commands convert and verify, one after the other in any order
ConvertOrVerify == Convert \/ Verify

SpecConvertVerify == Start(ConvertProjects) /\ [][ConvertOrVerify]_vars

(***************************************************************************)
(* C1  Idempotence of Convert.  When Convert is run twice in succession    *)
(* with the same options, the second run's modifiedFiles is empty, and     *)
(* the backend-entry file and the example-environment file read the same   *)
(* after the second run as after the first.                                *)
(***************************************************************************)
C1_Twice(i) ==
  /\ log[i].op = "convert" /\ log[i + 1].op = "convert"
  /\ log[i].options = log[i + 1].options

C1_ConvertIdempotent ==
  \A i \in 1..(Len(log) - 1) :
    C1_Twice(i) =>
      /\ log[i + 1].result.modifiedFiles = <<>>
      /\ log[i + 1].post[log[i + 1].result.backendEntryPath]
           = log[i].post[log[i].result.backendEntryPath]
      /\ log[i + 1].post[log[i + 1].result.envExamplePath]
           = log[i].post[log[i].result.envExamplePath]

(***************************************************************************)
(* C7  Rewrite completeness on canonical shapes.  For a file that begins   *)
(* with a directive, imports auth, collections and storage from the legacy *)
(* SDK and makes the eight canonical calls, Convert removes the legacy     *)
(* import, leaves in place of the calls the backend.auth, backend.data and *)
(* backend.storage calls with the same argument texts, and adds one import *)
(* of backend.  As claimed: the specifier of that import begins with './'  *)
(* and ends with '.js', and the directive is still the first line.  As     *)
(* checked: when Convert reports no unconvertible call in the file, the    *)
(* directive is still the first line, and the specifier is the path from   *)
(* the file's directory to the backend entry without its extension, with   *)
(* '.js' appended and './' prefixed unless it begins with '.' already.     *)
(***************************************************************************)
C7_Rewritten ==
  << Stmt(BackendCall("auth", "signIn", <<Lit("{ email, password }")>>)),
     Stmt(BackendCall("data", "create", <<Todos, Lit("{ title: 'hello' }")>>)),
     Stmt(BackendCall("data", "read", <<Todos, Obj("id", Str("'123'"))>>)),
     Stmt(BackendCall("data", "read", <<Todos, Obj("filter", Lit("{ done: false }"))>>)),
     Stmt(BackendCall("data", "update", <<Todos, Str("'123'"), Lit("{ done: true }")>>)),
     Stmt(BackendCall("data", "delete", <<Todos, Str("'123'")>>)),
     Stmt(BackendCall("storage", "upload", <<Str("'files'"), Str("'a.txt'"), Lit("bytes")>>)),
     Stmt(BackendCall("storage", "download", <<Str("'files'"), Str("'a.txt'")>>)) >>

C7_Statements(file) == SeqFilter(file.items, {x \in Range(file.items) : x.kind = "stmt"})

\* the file begins with a directive, imports from the legacy SDK in one of
\* the styles and makes the canonical calls
C7_Canonical(file) ==
  /\ file.kind = "text" /\ file.items # <<>> /\ file.items[1].kind = "directive"
  /\ \E style \in ImportStyles :
       /\ LegacyImportOf(style) \in Range(file.items)
       /\ Len(C7_Statements(file)) >= 8
       /\ SubSeq(C7_Statements(file), 1, 8) = CanonicalCalls(style)

C7_BackendImports(file) ==
  {x \in Range(file.items) : x.kind = "import" /\ x.named = <<Named("backend", "")>>}

C7_Converted(e, f) ==
  /\ \A x \in Range(e.post[f].items) :
       x.kind = "import" => ~ IsLikelyBase44ImportSource(x.spec)
  /\ SubSeq(C7_Statements(e.post[f]), 1, 8) = C7_Rewritten
  /\ Cardinality(C7_BackendImports(e.post[f])) = 1

C7_NoTodo(e, f) == \A k \in 1..Len(e.result.todos) :
  e.result.todos[k].file = f => e.result.todos[k].kind = "remaining-reference"

C7_Specifier(e, f) ==
  LET there == PathStr(Relative(Dirname(f), StripSourceExt(e.result.backendEntryPath)))
  IN (IF there[1] = "." THEN there ELSE <<".", "/">> \o there) \o <<".", "js">>

C13_Remaining(file) ==
  {it.spec : it \in {x \in Range(file.items) :
                       C6_InForm(x) /\ IsLikelyBase44ImportSource(x.spec)}}

C13_Further(e) ==
  {k \in 1..Len(e.result.todos) : e.result.todos[k].kind = "remaining-reference"}

C13_RunOk(e) ==
  LET rem == e.result.remainingBase44ModuleReferences
      sources == {p \in DOMAIN e.saved : IsProjectSourcePath(p)}
      One(p) == IF C13_Remaining(e.saved[p]) # {} THEN 1 ELSE 0
  IN /\ \A p \in sources :
          /\ Cardinality({i \in 1..Len(rem) : rem[i].file = p}) = One(p)
          /\ Cardinality({k \in C13_Further(e) : e.result.todos[k].file = p}) = One(p)
     /\ \A i \in 1..Len(rem) :
          /\ rem[i].file \in sources
          /\ Range(rem[i].specifiers) = C13_Remaining(e.saved[rem[i].file])
     /\ \A k \in C13_Further(e) :
          /\ e.result.todos[k].file \in sources
          /\ Range(e.result.todos[k].specs) = C13_Remaining(e.saved[e.result.todos[k].file])
     /\ \A i \in 1..(Len(rem) - 1) :
          ~ LocaleLess(PathStr(rem[i + 1].file), PathStr(rem[i].file))

C13_PostCheck ==
  \A i \in 1..Len(log) : log[i].op = "convert" => C13_RunOk(log[i])

\* A run that rewrites app.ts, whose require('base44') stays, next to
\* src/util.tsx with its import('...'): two entries, two further todos.
C13_Witness ==
  \E i \in 1..Len(log) :
    /\ log[i].op = "convert"
    /\ Paths.app \in Range(log[i].result.modifiedFiles)
    /\ Len(log[i].result.remainingBase44ModuleReferences) = 2
    /\ log[i].result.remainingBase44ModuleReferences[1] =
         [file |-> Paths.app, specifiers |-> <<Specifier.base44>>]
    /\ log[i].result.remainingBase44ModuleReferences[2] =
         [file |-> Paths.srcUtil, specifiers |-> <<Specifier.client>>]
    /\ Cardinality(C13_Further(log[i])) = 2

(***************************************************************************)
(* C14  Collections CRUD mapping and argument counts.  For every Convert   *)
(* run and every statement <collections>('entity').<method>(args) of a     *)
(* file with a legacy import: when the entity name is a string literal and *)
(* the number of arguments is that of the method's signature (create 1,    *)
(* update 2, delete and remove 1, get, read, list and all 0 or 1, find 1)  *)
(* the statement is a backend.data call after the run, and every argument  *)
(* of the original is in it; otherwise the statement is as it was, and the *)
(* file's todos count one unknown entity for each such call without a      *)
(* literal entity name and one unsupported call for each of the others.    *)
(***************************************************************************)
C14_Signature(method, n) ==
  CASE method = "create" -> n = 1
    [] method = "update" -> n = 2
    [] method \in {"delete", "remove"} -> n = 1
    [] method \in {"get", "read", "list", "all"} -> n \in {0, 1}
    [] method = "find" -> n = 1
    [] OTHER -> FALSE

\* the statements <collections>(...).<method>(...) of a file, by position
\* among its statements
C14_Calls(file) ==
  {k \in 1..Len(C7_Statements(file)) :
     LET c == C7_Statements(file)[k].expr
     IN /\ c.k = "call" /\ c.fn.k = "prop" /\ c.fn.obj.k = "call"
        /\ IsCollectionsCallee(c.fn.obj, ExtractBindings(FindBase44Imports(file.items)))}

C14_LiteralEntity(c) == c.fn.obj.args # <<>> /\ c.fn.obj.args[1].k = "str"

C14_Recognised(c) == C14_LiteralEntity(c) /\ C14_Signature(c.fn.name, Len(c.args))

C14_Carries(new, c) ==
  /\ new.k = "call" /\ new.fn.k = "prop" /\ new.fn.obj = Prop(Id("backend"), "data")
  /\ new.args # <<>> /\ new.args[1] = c.fn.obj.args[1]
  /\ \A a \in Range(c.args) :
       \E x \in Range(Tail(new.args)) : x = a \/ (x.k = "obj" /\ x.val = a)

C14_Count(e, f, kind) ==
  LET found == {k \in 1..Len(e.result.todos) :
                  e.result.todos[k].file = f /\ e.result.todos[k].kind = kind}
  IN IF found = {} THEN 0 ELSE e.result.todos[CHOOSE k \in found : TRUE].count

C14_RunOk(e, f) ==
  LET before == C7_Statements(e.pre[f])
      after == C7_Statements(e.saved[f])
      calls == C14_Calls(e.pre[f])
  IN /\ \A k \in calls :
          IF C14_Recognised(before[k].expr)
          THEN C14_Carries(after[k].expr, before[k].expr)
          ELSE after[k] = before[k]
     /\ C14_Count(e, f, "entity-not-literal")
          = Cardinality({k \in calls : ~ C14_LiteralEntity(before[k].expr)})
     /\ C14_Count(e, f, "crud-signature")
          = Cardinality({k \in calls : /\ C14_LiteralEntity(before[k].expr)
                                       /\ ~ C14_Recognised(before[k].expr)})

C14_CrudArgumentCounts ==
  \A i \in 1..Len(log) : \A f \in DOMAIN log[i].pre :
    (log[i].op = "convert" /\ IsProjectSourcePath(f) /\ log[i].pre[f].kind = "text"
       /\ FindBase44Imports(log[i].pre[f].items) # <<>>) => C14_RunOk(log[i], f)

(***************************************************************************)
(* C15  Reverse-order rewriting.  For every Convert run and every file     *)
(* with a legacy import: each statement of the file is, after the run, the *)
(* statement in which every call of a recognised shape, the calls in the   *)
(* arguments of other recognised calls included, has been replaced once by *)
(* its backend call, innermost first; no such call is left as it was and   *)
(* none is replaced a second time.                                         *)
(***************************************************************************)
\* the one replacement of a call, if a rewrite function has one for it
C15_Replaced(call, bindings) ==
  IF RewriteAuthCall(call, bindings).hit = "rewritten" THEN RewriteAuthCall(call, bindings).expr
  ELSE IF RewriteCollectionsCall(call, bindings).hit = "rewritten"
       THEN RewriteCollectionsCall(call, bindings).expr
  ELSE IF RewriteStorageCall(call, bindings).hit = "rewritten"
       THEN RewriteStorageCall(call, bindings).expr
  ELSE call

RECURSIVE C15_Once(_, _)
C15_Once(expr, bindings) ==
  IF expr.k = "call"
  THEN C15_Replaced([expr EXCEPT !.fn = C15_Once(expr.fn, bindings),
                                 !.args = [i \in 1..Len(expr.args) |->
                                             C15_Once(expr.args[i], bindings)]], bindings)
  ELSE IF expr.k = "prop" THEN [expr EXCEPT !.obj = C15_Once(expr.obj, bindings)]
  ELSE IF expr.k = "obj" THEN [expr EXCEPT !.val = C15_Once(expr.val, bindings)]
  ELSE expr

\* the run takes f for a source file and finds a legacy import in it
C15_Converts(e, f) ==
  /\ e.op = "convert" /\ IsProjectSourcePath(f)
  /\ e.pre[f].kind = "text" /\ FindBase44Imports(e.pre[f].items) # <<>>

C15_ReverseOrderRewriting ==
  \A i \in 1..Len(log) : \A f \in DOMAIN log[i].pre :
    C15_Converts(log[i], f) =>
      C7_Statements(log[i].saved[f]) =
        [k \in 1..Len(C7_Statements(log[i].pre[f])) |->
           Stmt(C15_Once(C7_Statements(log[i].pre[f])[k].expr,
                         ExtractBindings(FindBase44Imports(log[i].pre[f].items))))]

\* auth.signIn(collections('todos').get(auth.getUser())): the two auth calls
\* of the one pass and the collections call between them are all replaced
C15_Witness ==
  \E i \in 1..Len(log) : \E f \in DOMAIN log[i].pre :
    /\ C15_Converts(log[i], f)
    /\ Len(C7_Statements(log[i].pre[f])) = 9
    /\ C7_Statements(log[i].pre[f])[9].expr.args[1].k = "call"
    /\ C7_Statements(log[i].saved[f])[9] =
         Stmt(BackendCall("auth", "signIn",
                <<BackendCall("data", "read",
                    <<Todos, Obj("id", BackendCall("auth", "getUser", <<>>))>>)>>))

(***************************************************************************)
(* C16  Ambiguous patterns are always recorded.  For every Convert run and *)
(* every file with a legacy import: when a statement of the file is a call *)
(* on the legacy auth, collections or storage namespace, as the file's     *)
(* bindings resolve it, and the run leaves the statement as it was, the    *)
(* run's todos hold a todo for that file.                                  *)
(***************************************************************************)
C16_OnLegacyNamespace(c, bindings) ==
  /\ c.k = "call" /\ c.fn.k = "prop"
  /\ \/ IsReceiver(c.fn.obj, bindings.auth, bindings.namespaceLike, "auth")
     \/ IsReceiver(c.fn.obj, bindings.storage, bindings.namespaceLike, "storage")
     \/ c.fn.obj.k = "call" /\ IsCollectionsCallee(c.fn.obj, bindings)

C16_LeftAsWas(e, f) ==
  {k \in 1..Len(C7_Statements(e.pre[f])) :
     /\ C16_OnLegacyNamespace(C7_Statements(e.pre[f])[k].expr,
                              ExtractBindings(FindBase44Imports(e.pre[f].items)))
     /\ C7_Statements(e.saved[f])[k] = C7_Statements(e.pre[f])[k]}

C16_AmbiguousRecorded ==
  \A i \in 1..Len(log) : \A f \in DOMAIN log[i].pre :
    (C15_Converts(log[i], f) /\ C16_LeftAsWas(log[i], f) # {}) =>
      \E k \in 1..Len(log[i].result.todos) : log[i].result.todos[k].file = f

(***************************************************************************)
(* C17  Manual-review marking per file.  For every Convert run and every   *)
(* file with a legacy import: the file as saved begins with the            *)
(* manual-review comment if and only if one of its calls was counted as    *)
(* an unknown entity, an unsupported collections call or an unsupported    *)
(* storage call, or none of its calls was rewritten; and for each of the   *)
(* three counts the run's todos hold exactly one todo of that category for *)
(* the file, carrying the count, when the count is positive, and none when *)
(* it is zero.                                                             *)
(***************************************************************************)
\* what the rewrite functions make of one call, auth before collections
\* before storage: rewritten, or left and counted under a category, or none
C17_Outcome(call, bindings) ==
  IF RewriteAuthCall(call, bindings).hit # "none" THEN "rewritten"
  ELSE IF RewriteCollectionsCall(call, bindings).hit # "none"
       THEN CASE RewriteCollectionsCall(call, bindings).hit = "rewritten" -> "rewritten"
              [] RewriteCollectionsCall(call, bindings).hit = "unknownEntities" -> "entity-not-literal"
              [] RewriteCollectionsCall(call, bindings).hit = "unknown" -> "crud-signature"
  ELSE IF RewriteStorageCall(call, bindings).hit # "none"
       THEN CASE RewriteStorageCall(call, bindings).hit = "rewritten" -> "rewritten"
              [] RewriteStorageCall(call, bindings).hit = "unknown" -> "storage-call"
  ELSE "none"

\* the outcomes of the calls of an expression, the calls of a rewritten
\* call's callee left out
RECURSIVE C17_Outcomes(_, _)
C17_Outcomes(expr, bindings) ==
  IF expr.k = "call"
  THEN Concat([i \in 1..Len(expr.args) |-> C17_Outcomes(expr.args[i], bindings)])
       \o <<C17_Outcome(expr, bindings)>>
       \o (IF C17_Outcome(expr, bindings) = "rewritten" THEN <<>>
           ELSE C17_Outcomes(expr.fn, bindings))
  ELSE IF expr.k = "prop" THEN C17_Outcomes(expr.obj, bindings)
  ELSE IF expr.k = "obj" THEN C17_Outcomes(expr.val, bindings)
  ELSE <<>>

\* the outcomes of the calls of a file
C17_Calls(file) ==
  Concat([k \in 1..Len(C7_Statements(file)) |->
            C17_Outcomes(C7_Statements(file)[k].expr,
                         ExtractBindings(FindBase44Imports(file.items)))])

C17_Counted(file, kind) == Len(SeqFilter(C17_Calls(file), {kind}))

C17_Categories == {"entity-not-literal", "crud-signature", "storage-call"}

C17_Todos(e, f, kind) ==
  {k \in 1..Len(e.result.todos) : e.result.todos[k].file = f /\ e.result.todos[k].kind = kind}

C17_Marked(file) == file.items # <<>> /\ file.items[1] = TodoComment

C17_RunOk(e, f) ==
  LET Count(calls, kind) == Len(SeqFilter(calls, {kind}))
      Ok(calls) ==
        /\ C17_Marked(e.saved[f]) <=>
             \/ \E kind \in C17_Categories : Count(calls, kind) > 0
             \/ Count(calls, "rewritten") = 0
        /\ \A kind \in C17_Categories :
             /\ Cardinality(C17_Todos(e, f, kind)) = IF Count(calls, kind) > 0 THEN 1 ELSE 0
             /\ \A k \in C17_Todos(e, f, kind) : e.result.todos[k].count = Count(calls, kind)
  IN Ok(C17_Calls(e.pre[f]))

C17_ManualReviewMarking ==
  \A i \in 1..Len(log) : \A f \in DOMAIN log[i].pre :
    C15_Converts(log[i], f) => C17_RunOk(log[i], f)

\* storage.remove('a.txt') after the canonical calls: the file is marked and
\* has one todo, of one unsupported storage call; in the second run the
\* generated backend entry, where nothing is rewritten, is marked as saved
C17_Witness ==
  \E i \in 1..Len(log) : \E f \in DOMAIN log[i].pre :
    /\ C15_Converts(log[i], f)
    /\ C17_Counted(log[i].pre[f], "rewritten") = 8
    /\ C17_Counted(log[i].pre[f], "storage-call") = 1
    /\ C17_Marked(log[i].saved[f])
    /\ \E k \in 1..Len(log[i].result.todos) :
         log[i].result.todos[k] = Todo(f, "storage-call", 1)
    /\ i < Len(log)
    /\ C15_Converts(log[i + 1], log[i].result.backendEntryPath)
    /\ C17_Counted(log[i + 1].pre[log[i].result.backendEntryPath], "rewritten") = 0
    /\ C17_Marked(log[i + 1].saved[log[i].result.backendEntryPath])

(***************************************************************************)
(* C18  Backend import is ensured.  After every Convert run, each file of  *)
(* modifiedFiles holds exactly one import declaration from the backend     *)
(* specifier computed for it, and that declaration binds the name backend, *)
(* whether the run inserted it or the file had an import from that         *)
(* specifier before; the declaration stands after the directives that lead *)
(* the file.                                                               *)
(***************************************************************************)
C18_FromBackend(e, file, f) ==
  {k \in 1..Len(file.items) :
     /\ file.items[k].kind = "import"
     /\ file.items[k].spec = ComputeBackendImport(f, e.result.backendEntryPath)}

C18_BindsBackend(item) ==
  \E j \in 1..Len(item.named) :
    (IF item.named[j].alias = "" THEN item.named[j].name ELSE item.named[j].alias) = "backend"

C18_AfterDirectives(file, k) ==
  \A j \in 1..Len(file.items) : file.items[j].kind = "directive" => j < k

C18_RunOk(e, f) ==
  /\ Cardinality(C18_FromBackend(e, e.post[f], f)) = 1
  /\ \A k \in C18_FromBackend(e, e.post[f], f) :
       C18_BindsBackend(e.post[f].items[k]) /\ C18_AfterDirectives(e.post[f], k)

C18_BackendImportEnsured ==
  \A i \in 1..Len(log) :
    log[i].op = "convert" =>
      \A f \in Range(log[i].result.modifiedFiles) : C18_RunOk(log[i], f)

(***************************************************************************)
(* C21  Convert's report is order-independent.  Every Convert run reports, *)
(* whatever the order in which the reads of the post-check complete, the   *)
(* todos, in their order, and the remaining references that the            *)
(* post-check gives when it reads the files one after the other in the     *)
(* order of the file list.                                                 *)
(***************************************************************************)
C21_Sequential(e) ==
  ConvertProject(e.pre, e.options, Ident(Len(FindProjectSourceFiles(e.pre)))).result

C21_ReportOrderIndependent ==
  \A i \in 1..Len(log) :
    log[i].op = "convert" =>
      /\ log[i].result.todos = C21_Sequential(log[i]).todos
      /\ log[i].result.remainingBase44ModuleReferences
           = C21_Sequential(log[i]).remainingBase44ModuleReferences

(***************************************************************************)
(* convertProject, by its awaited steps: the files are loaded, processed   *)
(* in memory one after the other, saved by project.save() in any order,    *)
(* read back by the post-check, and then the backend entry and the example *)
(* environment file are written.  The run in progress is the last entry of *)
(* the log: its phase, the files processed so far and the files written.   *)
(***************************************************************************)
Last(s) == s[Len(s)]

BackendOf(options) == Opt(options, "backend", [mode |-> "supabase"])
BackendEntryAbs(options) == Opt(BackendOf(options), "entryPath", Paths.backendEntry)
EnvExampleAbs(options) == Opt(options, "envExamplePath", Paths.envExample)

Running == log # <<>> /\ Last(log).phase # "done"
AllProcessed(run) == Len(run.converted) = Len(run.sourceFiles)
Unsaved(run) ==
  {j \in 1..Len(run.converted) : run.converted[j].modified /\ j \notin run.written}

ConvertBegin ==
  /\ ~ Running
  /\ Len(log) < MaxOps
  /\ \E options \in ConvertOptionSet :
       \E order \in Orders(Len(FindProjectSourceFiles(disk))) :
         log' = Append(log, [op |-> "convert", options |-> options, order |-> order,
                             pre |-> disk, sourceFiles |-> FindProjectSourceFiles(disk),
                             phase |-> "process", converted |-> <<>>, written |-> {},
                             pushes |-> <<>>])
  /\ UNCHANGED disk

ProcessFile ==
  /\ Running /\ Last(log).phase = "process" /\ ~ AllProcessed(Last(log))
  /\ \E abs \in {Last(log).sourceFiles[Len(Last(log).converted) + 1]} :
       log' = [log EXCEPT ![Len(log)].converted =
                 Append(@, ConvertFile(Last(log).pre[abs], abs,
                                       BackendEntryAbs(Last(log).options)))]
  /\ UNCHANGED disk

SaveFile ==
  /\ Running /\ Last(log).phase = "process" /\ AllProcessed(Last(log))
  /\ \E j \in Unsaved(Last(log)) :
       /\ disk' = [disk EXCEPT ![Last(log).sourceFiles[j]] = Last(log).converted[j].file]
       /\ log' = [log EXCEPT ![Len(log)].written = @ \cup {j}]

PostCheck ==
  /\ Running /\ Last(log).phase = "process"
  /\ AllProcessed(Last(log)) /\ Unsaved(Last(log)) = {}
  /\ log' = [log EXCEPT ![Len(log)].phase = "checked",
                        ![Len(log)].pushes =
                           VerifyPushes(disk, Last(log).sourceFiles, Last(log).order, <<>>)]
  /\ UNCHANGED disk

WriteEntry ==
  /\ Running /\ Last(log).phase = "checked"
  /\ disk' = (BackendEntryAbs(Last(log).options) :>
                BackendEntryFile(BackendOf(Last(log).options).mode)) @@ disk
  /\ log' = [log EXCEPT ![Len(log)].phase = "entry"]

WriteEnv ==
  /\ Running /\ Last(log).phase = "entry"
  /\ disk' = (EnvExampleAbs(Last(log).options) :> EnvExampleFile) @@ disk
  /\ log' = [log EXCEPT ![Len(log)].phase = "done"]

\* One file with the canonical calls, with or without a require() that
\* stays, at the root or under src/pages, possibly next to a second file.
ConvertStepProjects ==
  { (at :> TextFile(<<LegacyImportOf("named")>> \o CanonicalCalls("named") \o x)) @@ u :
      at \in {Paths.app, Paths.page},
      x \in {<<>>, <<Require(Specifier.base44, "sq")>>},
      u \in {EmptyTree, (Paths.srcUtil :> TextFile(<<DynImport(Specifier.client, "sq")>>))} }

ConvertSteps ==
  \/ ConvertBegin
  \/ ProcessFile
  \/ SaveFile
  \/ PostCheck
  \/ WriteEntry
  \/ WriteEnv

SpecConvertSteps == Start(ConvertStepProjects) /\ [][ConvertSteps]_vars

(***************************************************************************)
(* C19  Batch persistence ordering in Convert.  In every step of a Convert *)
(* run: a source file is written only when every source file has been     *)
(* processed in memory; the post-check happens only when the batch save is *)
(* complete, every modified file being on disk as processed; the backend   *)
(* entry and the example environment file are written only after the       *)
(* post-check; and at the end of the run both hold the generated text,     *)
(* whatever they held before.                                              *)
(***************************************************************************)
C19_Written(p) == p \notin DOMAIN disk \/ disk'[p] # disk[p]

C19_Generated(run) == {BackendEntryAbs(run.options), EnvExampleAbs(run.options)}

C19_Step ==
  /\ \A p \in DOMAIN disk' :
       C19_Written(p) =>
         /\ p \in Range(Last(log).sourceFiles) => AllProcessed(Last(log))
         /\ p \in C19_Generated(Last(log)) => Last(log).phase \in {"checked", "entry"}
  /\ (Len(log') = Len(log) /\ Last(log').phase = "checked" /\ Last(log).phase = "process") =>
       \A j \in 1..Len(Last(log).sourceFiles) :
         Last(log).converted[j].modified =>
           disk[Last(log).sourceFiles[j]] = Last(log).converted[j].file
  /\ Last(log').phase = "done" =>
       /\ disk'[BackendEntryAbs(Last(log').options)]
            = BackendEntryFile(BackendOf(Last(log').options).mode)
       /\ disk'[EnvExampleAbs(Last(log').options)] = EnvExampleFile

C19_PersistenceOrdering == [][C19_Step]_vars

(***************************************************************************)
(* analyze: entity inference.  An object literal carries its properties,   *)
(* each a PropertyAssignment (title: ...) or a shorthand (title); a string *)
(* literal's text is its lexeme, quotes included.                          *)
(***************************************************************************)
Property(name, kind) == [name |-> name, kind |-> kind]
ObjLit(props) == [k |-> "objlit", props |-> props]

\* getLiteralText: the literal without its quotes
LiteralText(text) ==
  CASE text \in {"'todos'", "\"todos\""} -> <<"todos">>
    [] text = "'users'" -> <<"users">>
    [] text = "'123'" -> <<"123">>
    [] text = "'hello'" -> <<"hello">>
    [] text = "\"api\"" -> <<"api">>
    [] text \in {"'DB_KEY'", "\"DB_KEY\""} -> <<"DB_KEY">>
    [] text = "'apiUrl'" -> <<"apiUrl">>
    [] text = "''" -> <<>>
    [] OTHER -> <<text>>

\* /(create|update|insert|set)\b/i on one name: the name ends in one of the
\* verbs, whatever the case
EndsInMutationVerb(name) == LowerLex(name) \in {"create", "update", "insert", "set", "reset"}

\* the test on the callee's text: some name of it ends in a verb
RECURSIVE MatchesMutationVerb(_)
MatchesMutationVerb(expr) ==
  CASE expr.k = "id" -> EndsInMutationVerb(expr.name)
    [] expr.k = "prop" -> MatchesMutationVerb(expr.obj) \/ EndsInMutationVerb(expr.name)
    [] expr.k = "call" -> \/ MatchesMutationVerb(expr.fn)
                          \/ \E i \in 1..Len(expr.args) : MatchesMutationVerb(expr.args[i])
    [] expr.k = "str" -> /\ LiteralText(expr.text) # <<>>
                         /\ EndsInMutationVerb(LiteralText(expr.text)[1])
    [] OTHER -> FALSE

\* the names of the PropertyAssignment properties of an object literal
PropertyNames(expr) ==
  IF expr.k # "objlit" THEN <<>>
  ELSE LET assigned == SeqFilter(expr.props, {p \in Range(expr.props) : p.kind = "PropertyAssignment"})
       IN [i \in 1..Len(assigned) |-> <<assigned[i].name>>]

\* chainText.match(/collection\((['"])(?<name>[^'"]+)\1\)/): the first call in
\* the text whose callee ends in `collection` and whose only argument is a
\* non-empty quoted string; <<>> when there is none
RECURSIVE CollectionName(_)
CollectionName(expr) ==
  CASE expr.k = "prop" -> CollectionName(expr.obj)
    [] expr.k = "call" ->
         IF CollectionName(expr.fn) # <<>> THEN CollectionName(expr.fn)
         ELSE IF /\ expr.fn.k \in {"id", "prop"} /\ expr.fn.name = "collection"
                 /\ Len(expr.args) = 1 /\ expr.args[1].k = "str"
              THEN LiteralText(expr.args[1].text)
         ELSE IF \E i \in 1..Len(expr.args) : CollectionName(expr.args[i]) # <<>>
              THEN CollectionName(expr.args[CHOOSE i \in 1..Len(expr.args) :
                                    /\ CollectionName(expr.args[i]) # <<>>
                                    /\ \A j \in 1..(i - 1) : CollectionName(expr.args[j]) = <<>>])
         ELSE <<>>
    [] OTHER -> <<>>

\* inferEntityFromCall; entity <<>> stands for undefined and for ''
InferEntityFromCall(call) ==
  IF call.args # <<>> /\ call.args[1].k = "str"
  THEN [entity |-> LiteralText(call.args[1].text),
        fields |-> IF Len(call.args) >= 2 THEN PropertyNames(call.args[2]) ELSE <<>>]
  ELSE IF call.fn.k = "prop"
  THEN [entity |-> CollectionName(call.fn.obj),
        fields |-> IF call.args # <<>> THEN PropertyNames(call.args[1]) ELSE <<>>]
  ELSE [entity |-> <<>>, fields |-> <<>>]

\* addEntity; entities is the map, a function from the names to the entities
AddEntity(entities, entityName, newFields, file) ==
  LET known == entityName \in DOMAIN entities
      merged == SortStrs((IF known THEN Range(entities[entityName].fields) ELSE {})
                         \cup Range(newFields))
      evidence == (IF known THEN entities[entityName].evidence ELSE <<>>) \o <<[file |-> file]>>
  IN [n \in DOMAIN entities \cup {entityName} |->
        IF n = entityName THEN [name |-> entityName, fields |-> merged, evidence |-> evidence]
        ELSE entities[n]]

\* getDescendantsOfKind(CallExpression), in document order
RECURSIVE DescendantCalls(_)
DescendantCalls(expr) ==
  CASE expr.k = "call" ->
         <<expr>> \o DescendantCalls(expr.fn)
                 \o Concat([i \in 1..Len(expr.args) |-> DescendantCalls(expr.args[i])])
    [] expr.k = "prop" -> DescendantCalls(expr.obj)
    [] expr.k = "obj" -> DescendantCalls(expr.val)
    [] OTHER -> <<>>

\* the loop over the calls of one file
RECURSIVE InferEntities(_, _, _)
InferEntities(entities, calls, file) ==
  IF calls = <<>> THEN entities
  ELSE InferEntities(
         IF /\ MatchesMutationVerb(Head(calls).fn)
            /\ InferEntityFromCall(Head(calls)).entity # <<>>
            /\ InferEntityFromCall(Head(calls)).fields # <<>>
         THEN AddEntity(entities, InferEntityFromCall(Head(calls)).entity,
                        InferEntityFromCall(Head(calls)).fields, file)
         ELSE entities,
         Tail(calls), file)

\* the file has an import declaration whose source looks like the legacy SDK
HasLegacyImportDeclaration(file, importSources) ==
  /\ file.kind = "text"
  /\ \E x \in Range(file.items) :
       x.kind = "import" /\ VerifyAccepts(x.spec, importSources)

CallsOfFile(file) ==
  Concat([i \in 1..Len(file.items) |->
            IF file.items[i].kind = "stmt" THEN DescendantCalls(file.items[i].expr) ELSE <<>>])

RECURSIVE AnalyzeFiles(_, _, _, _)
AnalyzeFiles(entities, d, files, importSources) ==
  IF files = <<>> THEN entities
  ELSE AnalyzeFiles(
         IF HasLegacyImportDeclaration(d[Head(files)], importSources)
         THEN InferEntities(entities, CallsOfFile(d[Head(files)]), Head(files))
         ELSE entities,
         d, Tail(files), importSources)

\* [...entities.values()].sort((a, b) => a.name.localeCompare(b.name))
RECURSIVE SortEntities(_)
SortEntities(entities) ==
  IF DOMAIN entities = {} THEN <<>>
  ELSE LET m == CHOOSE x \in DOMAIN entities :
                  \A y \in DOMAIN entities \ {x} : LocaleLess(x, y)
       IN <<entities[m]>> \o SortEntities([n \in DOMAIN entities \ {m} |-> entities[n]])

\* obj['NAME']: an element access with a quoted name
Index(obj, text) == [k |-> "index", obj |-> obj, text |-> text]

\* the expression ends in the name: `name` itself or `<x>.name`
EndsInName(expr, name) == expr.k \in {"id", "prop"} /\ expr.name = name

\* [A-Z0-9_]+ followed by a word boundary, on the names of the model
EnvNamePattern(name) == name \in {"API_URL", "DB_KEY", "123"}

\* process.env or import.meta.env
IsEnvObject(expr) ==
  /\ expr.k = "prop" /\ expr.name = "env"
  /\ \/ EndsInName(expr.obj, "process")
     \/ /\ expr.obj.k = "prop" /\ expr.obj.name = "meta"
        /\ EndsInName(expr.obj.obj, "import")

\* the four expressions of inferEnvVarsFromText on one expression's text
RECURSIVE EnvVarsOfExpr(_)
EnvVarsOfExpr(expr) ==
  CASE expr.k = "prop" ->
         (IF IsEnvObject(expr.obj) /\ EnvNamePattern(expr.name) THEN {<<expr.name>>} ELSE {})
           \cup EnvVarsOfExpr(expr.obj)
    [] expr.k = "index" ->
         (IF /\ IsEnvObject(expr.obj) /\ LiteralText(expr.text) # <<>>
             /\ EnvNamePattern(LiteralText(expr.text)[1])
          THEN {LiteralText(expr.text)} ELSE {})
           \cup EnvVarsOfExpr(expr.obj)
    [] expr.k = "call" ->
         EnvVarsOfExpr(expr.fn) \cup UNION {EnvVarsOfExpr(expr.args[i]) : i \in 1..Len(expr.args)}
    [] OTHER -> {}

\* inferEnvVarsFromText, as the set of the names found
InferEnvVarsFromText(file) ==
  IF file.kind # "text" THEN {}
  ELSE UNION { IF file.items[i].kind = "stmt" THEN EnvVarsOfExpr(file.items[i].expr) ELSE {} :
                 i \in 1..Len(file.items) }

\* the words of an expression's text, in lower case
RECURSIVE ExprWords(_)
ExprWords(expr) ==
  CASE expr.k = "id" -> {LowerLex(expr.name)}
    [] expr.k = "prop" -> ExprWords(expr.obj) \cup {LowerLex(expr.name)}
    [] expr.k = "index" -> ExprWords(expr.obj) \cup {LowerLex(w) : w \in Range(LiteralText(expr.text))}
    [] expr.k = "call" ->
         ExprWords(expr.fn) \cup UNION {ExprWords(expr.args[i]) : i \in 1..Len(expr.args)}
    [] expr.k = "str" -> {LowerLex(w) : w \in Range(LiteralText(expr.text))}
    [] expr.k = "objlit" -> {LowerLex(p.name) : p \in Range(expr.props)}
    [] OTHER -> {}

\* the words of a file's full text
TextWords(file) ==
  UNION { CASE file.items[i].kind = "stmt" -> ExprWords(file.items[i].expr)
            [] file.items[i].kind = "import" ->
                 {LowerLex(w) : w \in Range(file.items[i].spec)}
                   \cup ({LowerLex(file.items[i].def), LowerLex(file.items[i].ns)} \ {""})
                   \cup UNION { {LowerLex(n.name), LowerLex(n.alias)} \ {""} :
                                  n \in Range(file.items[i].named) }
            [] OTHER -> {} :
          i \in 1..Len(file.items) }

\* the lower-case names that are called in the text: `name(`
CalledNames(file) ==
  {LowerLex(c.fn.name) : c \in {x \in Range(CallsOfFile(file)) : x.fn.k \in {"id", "prop"}}}

\* classifyUsageFromText: the categories in the order of its tests
ClassifyUsageFromText(file) ==
  LET Test(words, called, category) ==
        IF TextWords(file) \cap words # {} \/ CalledNames(file) \cap called # {}
        THEN <<category>> ELSE <<>>
      found ==
        Test({"auth", "signin", "signout", "getuser", "session"}, {}, <<"auth">>)
          \o Test({"collection", "collections", "database", "db"},
                  {"create", "update", "delete", "insert", "select"}, <<"data">>)
          \o Test({"storage", "bucket", "file", "files"}, {"upload", "download"}, <<"storage">>)
          \o Test({"realtime", "subscribe", "channel", "presence"}, {}, <<"realtime">>)
          \o Test({"function", "functions", "rpc", "invoke"}, {}, <<"server-functions">>)
  IN IF found = <<>> THEN << <<"unknown">> >> ELSE found

\* the first import declaration of the file that looks like the legacy SDK
FirstLegacyImport(file, importSources) ==
  file.items[CHOOSE i \in 1..Len(file.items) :
               /\ file.items[i].kind = "import"
               /\ VerifyAccepts(file.items[i].spec, importSources)
               /\ \A j \in 1..(i - 1) :
                    ~ (file.items[j].kind = "import"
                       /\ VerifyAccepts(file.items[j].spec, importSources))]

\* importedNames: the named imports' names, the default import, the namespace
ImportedNames(imp) ==
  [i \in 1..Len(imp.named) |-> imp.named[i].name]
    \o (IF imp.def # "" THEN <<imp.def>> ELSE <<>>)
    \o (IF imp.ns # "" THEN <<imp.ns>> ELSE <<>>)

\* the files of the project that get a finding, in the order they are visited
FilesWithFinding(d, importSources) ==
  SeqFilter(FindProjectSourceFiles(d),
            {f \in Range(FindProjectSourceFiles(d)) :
               HasLegacyImportDeclaration(d[f], importSources)})

Finding(d, f, importSources) ==
  [file |-> f,
   importSource |-> FirstLegacyImport(d[f], importSources).spec,
   importedNames |-> ImportedNames(FirstLegacyImport(d[f], importSources)),
   categories |-> ClassifyUsageFromText(d[f])]

\* addServerFunction; functions is the map, a function from the names
AddServerFunction(functions, name, file, snippet) ==
  [n \in DOMAIN functions \cup {name} |->
     IF n = name
     THEN [name |-> name,
           evidence |-> (IF name \in DOMAIN functions THEN functions[name].evidence ELSE <<>>)
                          \o <<[file |-> file, snippet |-> snippet]>>]
     ELSE functions[n]]

\* the server-function loop over the calls of one file
RECURSIVE InferServerFunctions(_, _, _)
InferServerFunctions(functions, calls, file) ==
  IF calls = <<>> THEN functions
  ELSE InferServerFunctions(
         IF /\ Head(calls).fn.k = "prop"
            /\ Head(calls).fn.name \in {"invoke", "rpc"}
            /\ Head(calls).args # <<>>
            /\ Head(calls).args[1].k = "str"
            /\ LiteralText(Head(calls).args[1].text) # <<>>
         THEN AddServerFunction(functions, LiteralText(Head(calls).args[1].text), file, Head(calls))
         ELSE functions,
         Tail(calls), file)

RECURSIVE AnalyzeServerFunctions(_, _, _)
AnalyzeServerFunctions(functions, d, files) ==
  IF files = <<>> THEN functions
  ELSE AnalyzeServerFunctions(
         InferServerFunctions(functions, CallsOfFile(d[Head(files)]), Head(files)),
         d, Tail(files))

\* analyzeProject: the report
AnalyzeReport(d, files, importSources) ==
  [importSources |-> Dedupe([i \in 1..Len(files) |-> FirstLegacyImport(d[files[i]], importSources).spec]),
   filesWithImports |-> Dedupe(files),
   findings |-> [i \in 1..Len(files) |-> Finding(d, files[i], importSources)],
   categoriesDetected |->
     SortStrs(UNION {Range(ClassifyUsageFromText(d[files[i]])) : i \in 1..Len(files)}),
   entities |->
     SortEntities(AnalyzeFiles([n \in {} |-> <<>>], d, FindProjectSourceFiles(d), importSources)),
   serverFunctions |-> SortEntities(AnalyzeServerFunctions([n \in {} |-> <<>>], d, files)),
   envVars |-> SortStrs(UNION {InferEnvVarsFromText(d[f]) : f \in Range(FindProjectSourceFiles(d))})]

AnalyzeProject(d, options) ==
  AnalyzeReport(d,
                FilesWithFinding(d, Opt(options, "base44ImportSources", DEFAULT_BASE44_IMPORT_SOURCES)),
                Opt(options, "base44ImportSources", DEFAULT_BASE44_IMPORT_SOURCES))

(***************************************************************************)
(* Analyze, run once on a project of one or two files.  app.ts imports the *)
(* legacy SDK and makes up to MaxCalls calls; src/app.ts, when there, has  *)
(* a legacy or another import and at most one call.  In a second family    *)
(* app.ts starts with two import declarations and src/app.ts may have none.*)
(***************************************************************************)
Assigned(name) == Property(name, "PropertyAssignment")

AnalyzeCalls ==
  LET todos == Call(Id("collections"), <<Str("'todos'")>>)
  IN { Call(Id("create"), <<Str("'todos'"), ObjLit(<<Assigned("title")>>)>>),
       Call(Id("update"), <<Str("\"todos\""), ObjLit(<<Assigned("title"), Assigned("done")>>)>>),
       Call(Prop(todos, "create"), <<ObjLit(<<Assigned("title"), Assigned("done")>>)>>),
       Call(Prop(todos, "update"), <<Str("'123'"), ObjLit(<<Assigned("done")>>)>>),
       Call(Prop(Call(Prop(Id("db"), "collection"), <<Str("'users'")>>), "insert"),
            <<ObjLit(<<Assigned("name")>>)>>),
       Call(Id("create"),
            <<Str("'todos'"), ObjLit(<<Property("title", "ShorthandPropertyAssignment")>>)>>),
       Call(Id("create"), <<Id("name"), ObjLit(<<Assigned("title")>>)>>),
       Call(Id("create"), <<Str("'todos'")>>),
       Call(Id("create"), <<Str("''"), ObjLit(<<Assigned("title")>>)>>),
       Call(Prop(todos, "get"), <<Str("'123'")>>) }

\* statements for the other inferences: server functions called by a
\* literal or another name, through a property or not, and environment
\* variables read in the four ways and under a name the pattern refuses
AnalyzeStatements ==
  LET env == Prop(Id("process"), "env")
      metaEnv == Prop(Prop(Id("import"), "meta"), "env")
  IN { Call(Prop(Id("functions"), "invoke"), <<Str("'hello'")>>),
       Call(Prop(Id("backend"), "rpc"), <<Str("\"api\"")>>),
       Call(Id("invoke"), <<Str("'hello'")>>),
       Call(Prop(Id("functions"), "invoke"), <<Id("name")>>),
       Prop(env, "API_URL"),
       Index(env, "'DB_KEY'"),
       Prop(metaEnv, "API_URL"),
       Index(metaEnv, "\"DB_KEY\""),
       Prop(env, "apiUrl"),
       Call(Id("create"), <<Str("'todos'"), ObjLit(<<Assigned("title")>>)>>) }

\* the import declarations app.ts starts with when it has two
ImportPairs ==
  { <<LegacyImportOf("named"), LegacyImportOf("alias")>>,
    <<LegacyImportOf("default"), LegacyImportOf("named")>>,
    <<ReactImport, LegacyImportOf("default")>>,
    <<LegacyImportOf("alias"), ReactImport>> }

SeveralImports ==
  { (Paths.app :> TextFile(imps \o [i \in DOMAIN ss |-> Stmt(ss[i])])) @@ b :
      imps \in ImportPairs,
      ss \in SeqsUpTo(AnalyzeStatements, MaxCalls),
      b \in {EmptyTree} \cup
            { Paths.srcApp :> TextFile(imp \o [i \in DOMAIN s |-> Stmt(s[i])]) :
                imp \in {<<LegacyImportOf("default")>>, <<>>},
                s \in SeqsUpTo(AnalyzeStatements, 1) } }

AnalyzeProjects ==
  { (Paths.app :> TextFile(<<LegacyImportOf("named")>> \o [i \in DOMAIN cs |-> Stmt(cs[i])])) @@ b :
      cs \in SeqsUpTo(AnalyzeCalls, MaxCalls),
      b \in {EmptyTree} \cup
            { Paths.srcApp :> TextFile(<<imp>> \o [i \in DOMAIN c |-> Stmt(c[i])]) :
                imp \in {LegacyImportOf("alias"), ReactImport},
                c \in SeqsUpTo(AnalyzeCalls, 1) } }
    \cup SeveralImports

AnalyzeOptionSet == {NoOptions, [base44ImportSources |-> <<Specifier.react>>]}

Analyze ==
  /\ log = <<>>
  /\ \E options \in AnalyzeOptionSet :
       /\ disk' = disk
       /\ log' = Append(log, [op |-> "analyze", options |-> options, pre |-> disk,
                              result |-> AnalyzeProject(disk, options)])

SpecAnalyze == Start(AnalyzeProjects) /\ [][Analyze]_vars

(***************************************************************************)
(* C12  Entity inference merges and sorts.  After analyzeProject, for      *)
(* every entity name written as a literal in a mutation-like call that     *)
(* has a field, in a file with a legacy import, there is exactly one       *)
(* inferred entity with that name; its fields are the sorted union of the  *)
(* field names at all such calls in all files, without duplicates, and     *)
(* its evidence names every file with such a call.  The entity name of a   *)
(* call on a collection, <collection>('name').<method>(...), is the        *)
(* collection's; of another call, its first argument.                      *)
(***************************************************************************)
C12_EntityName(call) ==
  IF /\ call.fn.k = "prop" /\ call.fn.obj.k = "call"
     /\ call.fn.obj.args # <<>> /\ call.fn.obj.args[1].k = "str"
  THEN LiteralText(call.fn.obj.args[1].text)
  ELSE IF call.args # <<>> /\ call.args[1].k = "str" THEN LiteralText(call.args[1].text)
  ELSE <<>>

\* the field names of the first object literal among the arguments
C12_FieldNames(call) ==
  UNION { {<<p.name>> : p \in Range(call.args[i].props)} :
            i \in {j \in 1..Len(call.args) :
                     /\ call.args[j].k = "objlit"
                     /\ \A h \in 1..(j - 1) : call.args[h].k # "objlit"} }

\* the calls that tell of entity n, each with its file
C12_Sites(e, n) ==
  { <<f, c>> \in UNION { {f} \X Range(CallsOfFile(e.pre[f])) :
                           f \in Range(FindProjectSourceFiles(e.pre)) } :
      /\ HasLegacyImportDeclaration(e.pre[f],
                                    Opt(e.options, "base44ImportSources", DEFAULT_BASE44_IMPORT_SOURCES))
      /\ MatchesMutationVerb(c.fn)
      /\ C12_EntityName(c) = n
      /\ C12_FieldNames(c) # {} }

C12_Names == {<<"todos">>, <<"users">>, <<"123">>}

C12_EntityInference ==
  \A i \in 1..Len(log) : \A n \in C12_Names :
    (log[i].op = "analyze" /\ C12_Sites(log[i], n) # {}) =>
      LET found == {k \in 1..Len(log[i].result.entities) : log[i].result.entities[k].name = n}
      IN /\ Cardinality(found) = 1
         /\ \A k \in found :
              /\ log[i].result.entities[k].fields =
                   SortStrs(UNION {C12_FieldNames(x[2]) : x \in C12_Sites(log[i], n)})
              /\ {x[1] : x \in C12_Sites(log[i], n)} \subseteq
                   {log[i].result.entities[k].evidence[h].file :
                      h \in 1..Len(log[i].result.entities[k].evidence)}

(***************************************************************************)
(* C22  One Finding per file.  After analyzeProject, findings has at most  *)
(* one entry per file; the entry of a file carries the specifier of the    *)
(* file's first legacy import declaration and the names that declaration   *)
(* binds in the file (the alias of a named import that has one); and the   *)
(* file's calls are inspected once: each call that tells of an entity or   *)
(* of a server function adds one piece of evidence, no more.               *)
(***************************************************************************)
C22_ImportSources(e) == Opt(e.options, "base44ImportSources", DEFAULT_BASE44_IMPORT_SOURCES)

\* the names an import declaration binds in its file
C22_BoundNames(imp) ==
  {IF n.alias # "" THEN n.alias ELSE n.name : n \in Range(imp.named)}
    \cup ({imp.def, imp.ns} \ {""})

C22_OnePerFile(e) ==
  \A h, k \in 1..Len(e.result.findings) :
    e.result.findings[h].file = e.result.findings[k].file => h = k

C22_FirstImport(e) ==
  \A k \in 1..Len(e.result.findings) :
    \E imp \in {FirstLegacyImport(e.pre[e.result.findings[k].file], C22_ImportSources(e))} :
      /\ e.result.findings[k].importSource = imp.spec
      /\ Range(e.result.findings[k].importedNames) = C22_BoundNames(imp)

\* the evidence of file f in a list of entities or functions
C22_Evidence(list, f) ==
  Concat([k \in 1..Len(list) |-> SeqFilter(list[k].evidence,
                                            {x \in Range(list[k].evidence) : x.file = f})])

C22_TellsOfFunction(c) ==
  /\ c.fn.k = "prop" /\ c.fn.name \in {"invoke", "rpc"}
  /\ c.args # <<>> /\ c.args[1].k = "str" /\ LiteralText(c.args[1].text) # <<>>

C22_TellsOfEntity(c) ==
  /\ MatchesMutationVerb(c.fn)
  /\ InferEntityFromCall(c).entity # <<>>
  /\ InferEntityFromCall(c).fields # <<>>

C22_Count(calls, Tells(_)) == Cardinality({i \in 1..Len(calls) : Tells(calls[i])})

C22_InspectedOnce(e) ==
  \A k \in 1..Len(e.result.findings) :
    /\ Len(C22_Evidence(e.result.entities, e.result.findings[k].file))
         = C22_Count(CallsOfFile(e.pre[e.result.findings[k].file]), C22_TellsOfEntity)
    /\ Len(C22_Evidence(e.result.serverFunctions, e.result.findings[k].file))
         = C22_Count(CallsOfFile(e.pre[e.result.findings[k].file]), C22_TellsOfFunction)

C22_OneFindingPerFile ==
  \A i \in 1..Len(log) :
    log[i].op = "analyze" =>
      /\ C22_OnePerFile(log[i])
      /\ C22_FirstImport(log[i])
      /\ C22_InspectedOnce(log[i])

(***************************************************************************)
(* C23  Report lists are de-duplicated and sorted.  In the report of       *)
(* analyzeProject each of importSources, filesWithImports,                 *)
(* categoriesDetected, envVars, the entities' names, the server            *)
(* functions' names, and every entity's fields and evidence (by file) has  *)
(* no key twice and its keys ascend.                                       *)
(***************************************************************************)
\* no key twice, and the keys ascend in code-unit order or under localeCompare
C23_Ascending(keys) ==
  /\ \A h, k \in 1..Len(keys) : keys[h] = keys[k] => h = k
  /\ \/ \A k \in 1..(Len(keys) - 1) : StrLess(keys[k], keys[k + 1])
     \/ \A k \in 1..(Len(keys) - 1) : LocaleLess(keys[k], keys[k + 1])

C23_Names(list) == [k \in 1..Len(list) |-> list[k].name]
C23_Files(evidence) == [k \in 1..Len(evidence) |-> PathStr(evidence[k].file)]

C23_TopLevel(r) ==
  /\ C23_Ascending([k \in 1..Len(r.filesWithImports) |-> PathStr(r.filesWithImports[k])])
  /\ C23_Ascending(r.categoriesDetected)
  /\ C23_Ascending(r.envVars)
  /\ C23_Ascending(C23_Names(r.entities))
  /\ C23_Ascending(C23_Names(r.serverFunctions))
  /\ \A k \in 1..Len(r.entities) : C23_Ascending(r.entities[k].fields)

C23_ImportSources(r) == C23_Ascending(r.importSources)

C23_Evidence(r) == \A k \in 1..Len(r.entities) : C23_Ascending(C23_Files(r.entities[k].evidence))

C23_ListsSortedAndUnique ==
  \A i \in 1..Len(log) :
    log[i].op = "analyze" =>
      /\ C23_TopLevel(log[i].result)
      /\ C23_ImportSources(log[i].result)
      /\ C23_Evidence(log[i].result)

(***************************************************************************)
(* C24  Verify is clean after a complete conversion.  For a project whose  *)
(* only legacy references are import declarations of the legacy SDK,       *)
(* after convertProject with its default options, verifyProject with its   *)
(* default options on the same root reports no remaining legacy reference; *)
(* the generated backend-entry file is not reported.                       *)
(***************************************************************************)
\* every specifier in the tree that the classifier accepts is that of an
\* import declaration of one of the legacy SDK's modules
C24_OnlyStaticImports(d) ==
  \A f \in DOMAIN d :
    d[f].kind = "text" =>
      \A x \in Range(d[f].items) :
        (x.spec # <<>> /\ IsLikelyBase44ImportSource(x.spec)) =>
          /\ x.kind = "import" /\ x.from
          /\ x.spec \in Range(DEFAULT_BASE44_IMPORT_SOURCES)

C24_Complete(i) ==
  /\ i > 1
  /\ log[i].op = "verify" /\ log[i].options = NoOptions
  /\ log[i - 1].op = "convert" /\ log[i - 1].options = NoOptions
  /\ C24_OnlyStaticImports(log[i - 1].pre)

C24_VerifyCleanAfterConvert ==
  \A i \in 1..Len(log) :
    C24_Complete(i) => log[i].result.remainingBase44ModuleReferences = <<>>

(***************************************************************************)
(* C25  Pruning keeps what the converted project needs.  When              *)
(* cleanupProject prunes the manifest of a project that holds the          *)
(* generated backend-entry file, no package that the entry file imports,   *)
(* the adapter interface or the adapter implementation, is among the       *)
(* removed dependencies, and the manifest keeps its entries for them.      *)
(***************************************************************************)
\* the packages the generated entry file of the tree imports
C25_Needed(d) ==
  UNION { {x.spec : x \in {y \in Range(d[f].items) : y.kind = "import"}} :
            f \in {Paths.hiddenEntry, Paths.backendEntry} \cap DOMAIN d }

\* the names of the manifest's dependency entries
C25_Entries(file) ==
  IF file.kind = "json" /\ file.pkg.valid
  THEN UNION { {n.name : n \in Range(file.pkg.fields[k].entries)} :
                 k \in {h \in Range(DepFields) \cap DOMAIN file.pkg.fields :
                          file.pkg.fields[h].t = "object"} }
  ELSE {}

C25_PruneKeepsAdapters ==
  \A i \in 1..Len(log) :
    WantsPrune(log[i]) =>
      \A p \in C25_Needed(log[i].pre) :
        /\ p \notin Range(log[i].result.removedDependencies)
        /\ p \in C25_Entries(ManifestOf(log[i].pre)) => p \in C25_Entries(ManifestOf(disk))

(***************************************************************************)
(* Analyze, then Convert on the unchanged tree with Analyze's report.  The *)
(* projects hold app.ts with one of the texts of the conversion family     *)
(* and possibly src/app.ts, which imports another package only.            *)
(***************************************************************************)
AgreeProjects ==
  { (Paths.app :> t) @@ u :
      t \in ConvertTexts, u \in {EmptyTree, (Paths.srcApp :> TextFile(<<ReactImport>>))} }

ConvertWithReport ==
  /\ log # <<>> /\ Last(log).op = "analyze"
  /\ Convert

AnalyzeThenConvert == Analyze \/ ConvertWithReport

SpecAnalyzeConvert == Start(AgreeProjects) /\ [][AnalyzeThenConvert]_vars

(***************************************************************************)
(* C26  Analyze and Convert agree on what is legacy.  For every allow-list *)
(* passed to analyzeProject, when convertProject runs next on the          *)
(* unchanged tree, every file of Analyze's filesWithImports is in          *)
(* convert.modifiedFiles, and after the run it has no import declaration   *)
(* of a specifier that is in Analyze's importSources.                      *)
(***************************************************************************)
C26_Converted(a, c, f) == f \in Range(c.result.modifiedFiles)

C26_NoneLeft(a, c, f) ==
  \A x \in Range(c.post[f].items) :
    x.kind = "import" => x.spec \notin Range(a.result.importSources)

C26_AnalyzeConvertAgree ==
  \A i \in 2..Len(log) :
    (log[i].op = "convert" /\ log[i - 1].op = "analyze") =>
      \A f \in Range(log[i - 1].result.filesWithImports) :
        /\ C26_Converted(log[i - 1], log[i], f)
        /\ C26_NoneLeft(log[i - 1], log[i], f)

(***************************************************************************)
(* C27  In-file marker and report agree.  Whenever a Convert run inserts   *)
(* the manual-review comment into a file, the run's convert.todos holds at *)
(* least one todo whose file is that file.                                 *)
(***************************************************************************)
C27_Comments(file) == Len(SeqFilter(file.items, {TodoComment}))

\* the run put the comment at the head of the file
C27_Inserted(e, f) ==
  /\ C15_Converts(e, f)
  /\ C17_Marked(e.saved[f])
  /\ C27_Comments(e.saved[f]) = C27_Comments(e.pre[f]) + 1

C27_MarkerHasTodo ==
  \A i \in 1..Len(log) : \A f \in DOMAIN log[i].pre :
    C27_Inserted(log[i], f) =>
      \E k \in 1..Len(log[i].result.todos) : log[i].result.todos[k].file = f

(***************************************************************************)
(* C28  Dry-run is a faithful preview.  For every dry-run of               *)
(* cleanupProject with aggressive off, the run in delete mode on the same  *)
(* tree with the same other flags returns the same deletedPaths,           *)
(* skippedPaths and removedDependencies.                                   *)
(***************************************************************************)
\* the result of the run of e's options in delete mode on e's tree
C28_InDeleteMode(e) ==
  CleanupProject(e.pre,
                 [k \in DOMAIN e.options \cup {"mode"} |->
                    IF k = "mode" THEN "delete" ELSE e.options[k]],
                 e.renameFails).result

C28_Same(preview, done) ==
  /\ preview.deletedPaths = done.deletedPaths
  /\ preview.skippedPaths = done.skippedPaths
  /\ preview.removedDependencies = done.removedDependencies

C28_DryRunFaithful ==
  \A i \in 1..Len(log) :
    (IsDryRun(log[i]) /\ ~ IsAggressive(log[i])) =>
      C28_Same(log[i].result, C28_InDeleteMode(log[i]))

(***************************************************************************)
(* C29  Convert's frame.  A Convert run leaves every file of the tree that *)
(* is not a source file with a legacy import declaration as it was, the    *)
(* backend-entry file and the example-environment file excepted; and       *)
(* convert.modifiedFiles holds exactly the source files that had a legacy  *)
(* import declaration when the run started, each once, in ascending order. *)
(***************************************************************************)
\* the source files that have a legacy import declaration when e starts
C29_Legacy(e) ==
  {f \in Range(FindProjectSourceFiles(e.pre)) :
     /\ e.pre[f].kind = "text"
     /\ \E x \in Range(e.pre[f].items) :
          x.kind = "import" /\ IsLikelyBase44ImportSource(x.spec)}

C29_Generated(e) == {e.result.backendEntryPath, e.result.envExamplePath}

C29_Frame(e) ==
  \A f \in DOMAIN e.pre \ (C29_Legacy(e) \cup C29_Generated(e)) :
    f \in DOMAIN e.post /\ e.post[f] = e.pre[f]

C29_Modified(e) ==
  /\ Range(e.result.modifiedFiles) = C29_Legacy(e)
  /\ \A k \in 1..(Len(e.result.modifiedFiles) - 1) :
       StrLess(PathStr(e.result.modifiedFiles[k]), PathStr(e.result.modifiedFiles[k + 1]))

C29_ConvertFrame ==
  \A i \in 1..Len(log) :
    log[i].op = "convert" => C29_Frame(log[i]) /\ C29_Modified(log[i])

\* a first run modifies app.ts and src/pages/app.tsx, listed in this order;
\* the second run finds app.ts without a legacy import and leaves it as it
\* is, as it leaves src/pages/app.tsx, and modifies the generated entry only
C29_Witness ==
  /\ Len(log) = 2
  /\ log[1].op = "convert" /\ log[2].op = "convert"
  /\ log[1].result.modifiedFiles = <<Paths.app, Paths.page>>
  /\ log[1].post[Paths.app] # log[1].pre[Paths.app]
  /\ Paths.app \notin C29_Legacy(log[2])
  /\ Paths.backendEntry \in DOMAIN log[2].pre
  /\ log[2].result.modifiedFiles = <<Paths.backendEntry>>
  /\ log[2].post[Paths.app] = log[2].pre[Paths.app]
  /\ log[2].post[Paths.page] = log[2].pre[Paths.page]

====
